---- MODULE Spec2Model ----
(***************************************************************************)
(* MIDI Looper (eimhin/midi-looper): the real-time sequencing engine as a  *)
(* state machine.  The three host entry points are the actions: the audio  *)
(* block (step), the MIDI-in callback (midiMessage) and the parameter      *)
(* write followed by parameterChanged.  Every handler is a function from   *)
(* the engine record `alg' to the engine record, composed exactly in the   *)
(* order of the statements of the source.                                  *)
(*                                                                         *)
(* Scaling.  The fixed tables of the program are modelled at reduced size: *)
(* MaxNote stands for the top MIDI note 127, MaxSteps for MAX_STEPS,       *)
(* MaxDelayedNotes for MAX_DELAYED_NOTES, NumTracks for the constructed    *)
(* numTracks.  Time is counted in milliseconds.  The PRNG is a             *)
(* nondeterministic choice over the range of each draw (the seed is the    *)
(* hardware cycle counter): the draws of one handler call are the fields   *)
(* of the record `rnd'.                                                    *)
(***************************************************************************)
EXTENDS Integers, Sequences, FiniteSets, TLC

\* ------------------------------------------------------------------ bounds
NumTracks == 2          \* tracks constructed (numTracks)
MaxNote == 3            \* notes are 0..MaxNote (the program: 0..127)
MaxSteps == 4           \* steps per track (the program: MAX_STEPS = 128)
MaxDelayedNotes == 2    \* delayed-note pool size (the program: 64)
MaxClock == 9
RecMaxClock == 2           \* clock ticks modelled between two transport starts
MaxStepTime == 2        \* stepTime saturates here (ms)
MaxDt == 2              \* longest audio block (ms)

\* ------------------------------------------------------- program constants
MAX_EVENTS_PER_STEP == 8
kMidiNoteOff == 128
kMidiNoteOn == 144
kMidiCC == 176
TRANSPORT_STOPPED == 0
TRANSPORT_RUNNING == 1
REC_IDLE == 0
REC_LIVE == 1
REC_STEP == 2
REC_LIVE_PENDING == 3
REC_MODE_REPLACE == 0
REC_MODE_OVERDUB == 1
REC_MODE_STEP == 2
GEN_MODE_NEW == 0
GEN_MODE_REORDER == 1
GEN_MODE_REPITCH == 2
GEN_MODE_INVERT == 3
COND_FIXED == 75
NUM_RATIOS == 35
DIR_FORWARD == 0
DIR_BROWNIAN == 8
DIR_SHUFFLE == 10
NUM_DIRECTIONS == 12
BROWNIAN_DELTA_MIN == -2
BROWNIAN_DELTA_MAX == 2
\* CV thresholds in tenths of a volt (2.0 V and 0.5 V)
GATE_THRESHOLD_HIGH == 20
GATE_THRESHOLD_LOW == 5
\* initial step-duration estimate, 0.1 s, in ms
InitStepDuration == 100
AllNotesOffCC == 123

Tracks == 0 .. NumTracks - 1
Notes == 0 .. MaxNote
StepIdx == 0 .. MaxSteps - 1
DelaySlots == 0 .. MaxDelayedNotes - 1

\* ----------------------------------------------------------------- helpers
clamp(x, lo, hi) == IF x < lo THEN lo ELSE IF x > hi THEN hi ELSE x

clampParam(val, minVal, maxVal) ==
    IF val < minVal THEN minVal ELSE IF val > maxVal THEN maxVal ELSE val

safeStepIndex(idx) == IF idx < 0 THEN 0 ELSE IF idx >= MaxSteps THEN MaxSteps - 1 ELSE idx

safeTrackIndex(idx) == IF idx < 0 THEN 0 ELSE IF idx >= NumTracks THEN NumTracks - 1 ELSE idx

safeNoteIndex(idx) == IF idx < 0 THEN 0 ELSE IF idx > MaxNote THEN MaxNote ELSE idx

\* uint16_t / uint8_t conversions of the stored fields
U16(x) == x % 65536
U8(x) == x % 256

Min(x, y) == IF x < y THEN x ELSE y
Max(x, y) == IF x > y THEN x ELSE y

\* destination parameter -> set of physical outputs (the destination bit mask)
destToWhere(dest) ==
    CASE dest = 0 -> {"Breakout"}
      [] dest = 1 -> {"SelectBus"}
      [] dest = 2 -> {"USB"}
      [] dest = 3 -> {"Internal"}
      [] OTHER -> {"Breakout", "SelectBus", "USB", "Internal"}

\* (status & 0xF0) | (clamp(ch, 1, 16) - 1), status one of 0x80, 0x90, 0xB0
withChannel(status, ch) == status + clamp(ch, 1, 16) - 1

\* NT_sendMidi3ByteMessage: the message joins the output of the running handler,
\* labelled with the section of the handler that sent it and with the track whose
\* tick was being processed or whose delayed note was due (-1 otherwise)
NT_sendMidi3ByteMessage(a, where, b0, b1, b2) ==
    [a EXCEPT !.out = Append(@, [where |-> where, b0 |-> b0, b1 |-> b1, b2 |-> b2,
                                  phase |-> a.phase, track |-> a.cur])]

\* ------------------------------------------------------ parameter accessors
tpEnabled(a, t) == a.v.track[t].enabled = 1
tpLength(a, t) == clampParam(a.v.track[t].length, 1, MaxSteps)
tpDirection(a, t) == a.v.track[t].direction
tpChannel(a, t) == clampParam(a.v.track[t].channel, 1, 16)
tpDestination(a, t) == a.v.track[t].destination
tpVelocity(a, t) == a.v.track[t].velocity
tpHumanize(a, t) == a.v.track[t].humanize
tpClockDiv(a, t) == clampParam(a.v.track[t].clockDiv, 1, 16)

transportIsRunning(state) == state # TRANSPORT_STOPPED

\* ------------------------------------------------------------ track events
\* an array of the program, as an explicit table of its elements
Table(f) == f @@ <<>>

\* a list of the program, as an explicit sequence of its elements
List(f) == <<>> \o f

EmptySteps == Table([s \in StepIdx |-> <<>>])

\* clearTrackEvents(&alg->trackStates[t].data)
clearTrackEvents(a, t) == [a EXCEPT !.trackStates[t].data = EmptySteps]

hasNoteEvent(evs, noteNum) == \E i \in 1 .. Len(evs) : evs[i].note = noteNum

addEvent(evs, note, velocity, duration) ==
    IF Len(evs) < MAX_EVENTS_PER_STEP /\ ~hasNoteEvent(evs, note)
    THEN Append(evs, [note |-> note, velocity |-> velocity, duration |-> duration])
    ELSE evs

\* ------------------------------------------------------- MIDI output helpers
RECURSIVE AllNotesOffFrom(_, _)
AllNotesOffFrom(a, t) ==
    IF t >= NumTracks THEN a
    ELSE AllNotesOffFrom(
             NT_sendMidi3ByteMessage(a, destToWhere(tpDestination(a, t)),
                                     withChannel(kMidiCC, tpChannel(a, t)), AllNotesOffCC, 0),
             t + 1)

\* one CC 123 per track, on the track's channel and destination
sendAllNotesOff(a) == AllNotesOffFrom(a, 0)

isNoteSharedByOtherTrack(a, track, note, outCh, where) ==
    \E t \in Tracks :
        /\ t # track
        /\ a.trackStates[t].playing[note].active
        /\ a.trackStates[t].playing[note].outCh = outCh
        /\ a.trackStates[t].playing[note].where = where

RECURSIVE TrackNotesOffFrom(_, _, _)
TrackNotesOffFrom(a, track, n) ==
    IF n > MaxNote THEN a
    ELSE LET pn == a.trackStates[track].playing[n]
             a1 == IF pn.active /\ ~isNoteSharedByOtherTrack(a, track, n, pn.outCh, pn.where)
                   THEN NT_sendMidi3ByteMessage(a, pn.where,
                                                withChannel(kMidiNoteOff, pn.outCh), n, 0)
                   ELSE a
             a2 == [a1 EXCEPT !.trackStates[track].activeNotes[n] = 0,
                              !.trackStates[track].playing[n].active = FALSE]
         IN TrackNotesOffFrom(a2, track, n + 1)

\* sendTrackNotesOff(alg, track): the shared-note check against the other tracks,
\* then the track's pending delayed notes are cancelled
sendTrackNotesOff(a, track) ==
    LET a1 == TrackNotesOffFrom(a, track, 0)
    IN [a1 EXCEPT !.trackStates[track].activeVel = 0,
                  !.delayedNotes = Table([i \in DelaySlots |->
                        IF a1.delayedNotes[i].active /\ a1.delayedNotes[i].track = track
                        THEN [a1.delayedNotes[i] EXCEPT !.active = FALSE]
                        ELSE a1.delayedNotes[i]])]

RECURSIVE TrackNotesOffAtFrom(_, _, _, _, _)
TrackNotesOffAtFrom(a, track, where, outCh, n) ==
    IF n > MaxNote THEN a
    ELSE LET a1 == IF a.trackStates[track].activeNotes[n] > 0
                   THEN NT_sendMidi3ByteMessage(a, where, withChannel(kMidiNoteOff, outCh), n, 0)
                   ELSE a
             a2 == [a1 EXCEPT !.trackStates[track].activeNotes[n] = 0,
                              !.trackStates[track].playing[n].active = FALSE]
         IN TrackNotesOffAtFrom(a2, track, where, outCh, n + 1)

\* sendTrackNotesOff(alg, track, where, outCh): the overload processTrack calls
sendTrackNotesOffAt(a, track, where, outCh) ==
    [TrackNotesOffAtFrom(a, track, where, outCh, 0) EXCEPT !.trackStates[track].activeVel = 0]

\* ---------------------------------------------------------------- quantize
QUANTIZE_VALUES == <<1, 2, 4, 8, 16>>

RECURSIVE findValidQuantizeFrom(_, _)
findValidQuantizeFrom(loopLen, q) ==
    IF q < 1 THEN 1
    ELSE IF loopLen % q = 0 THEN q ELSE findValidQuantizeFrom(loopLen, q - 1)

findValidQuantize(loopLen, targetQuantize) ==
    findValidQuantizeFrom(loopLen, IF targetQuantize < loopLen THEN targetQuantize ELSE loopLen)

getEffectiveQuantize(a, track) ==
    findValidQuantize(tpLength(a, track), QUANTIZE_VALUES[clampParam(a.v.recDivision, 0, 4) + 1])

\* getCachedQuantize: refreshes a dirty cache; returns the engine with the cache
\* refreshed, the quantize and the loop length are then read from the cache
refreshCache(a, track) ==
    IF a.trackStates[track].cache.dirty
    THEN [a EXCEPT !.trackStates[track].cache =
              [effectiveQuantize |-> U8(getEffectiveQuantize(a, track)),
               loopLen |-> U8(tpLength(a, track)),
               dirty |-> FALSE]]
    ELSE a

cachedQuantize(a, track) == a.trackStates[track].cache.effectiveQuantize
cachedLoopLen(a, track) == a.trackStates[track].cache.loopLen

\* stepFraction = clampf(stepTime / stepDuration, 0, 1) is the pair <<num, den>>
stepFractionOf(stepTime, stepDuration) ==
    IF stepDuration > 0 THEN <<Min(stepTime, stepDuration), stepDuration>> ELSE <<0, 1>>

\* stepFraction < threshold, threshold = recSnap / 100
snapStepSubclock(rawStep, frac, recSnap, loopLen) ==
    IF frac[1] * 100 < recSnap * frac[2] THEN rawStep
    ELSE IF rawStep + 1 > loopLen THEN 1 ELSE rawStep + 1

\* a division snap that never snaps forward
snapToDivisionSubclock_Floor(rawStep, frac, quantize, recSnap, loopLen) ==
    ((rawStep - 1) \div quantize) * quantize + 1

snapToDivisionSubclock(rawStep, frac, quantize, recSnap, loopLen) ==
    LET stepInDivision == (rawStep - 1) % quantize
        currentDivision == (rawStep - 1) \div quantize
        quantizedStep == currentDivision * quantize + 1
        \* divisionPosition = (stepInDivision + stepFraction) / quantize >= threshold
        snapForward == (stepInDivision * frac[2] + frac[1]) * 100 >= recSnap * quantize * frac[2]
    IN IF snapForward
       THEN IF (currentDivision + 1) * quantize + 1 > loopLen THEN 1
            ELSE (currentDivision + 1) * quantize + 1
       ELSE quantizedStep

calcQuantizedDuration(duration, quantize) ==
    IF quantize <= 1 THEN duration
    ELSE LET quantizedDur == ((duration + quantize \div 2) \div quantize) * quantize
         IN IF quantizedDur < quantize THEN quantize ELSE quantizedDur

\* ------------------------------------------------------------ engine state
VARIABLES v, dtc, trackStates, heldNotes, delayedNotes, out, obs

vars == <<v, dtc, trackStates, heldNotes, delayedNotes, out, obs>>

\* parameter defaults (params.h); Length 16 is MAX_STEPS-scaled to MaxSteps
DefaultTrackParams(t) ==
    [enabled |-> IF t = 0 THEN 1 ELSE 0, length |-> MaxSteps, direction |-> 0,
     strideSize |-> 2, velocity |-> 0, humanize |-> 0, channel |-> t + 2, destination |-> 3,
     stability |-> 0, motion |-> 0, randomness |-> 0, gravity |-> 0, gravityAnchor |-> 1,
     pedal |-> 0, pedalStep |-> 1, noRepeat |-> 0, stepMask |-> 0,
     octMin |-> 0, octMax |-> 0, octProb |-> 0, octBypass |-> 0,
     stepProb |-> 100, stepCond |-> 0, condStepA |-> 0, condA |-> 0, probA |-> 100,
     condStepB |-> 0, condB |-> 0, probB |-> 100, clockDiv |-> 1]

DefaultParams ==
    [runInput |-> 1, clockInput |-> 2, record |-> 0, recTrack |-> 0, recDivision |-> 0, recMode |-> 0, recSnap |-> 75,
     midiInCh |-> 1, panicOnWrap |-> 0, scaleRoot |-> 0, scaleType |-> 0,
     clearTrack |-> 0, clearAll |-> 0, generate |-> 0, genMode |-> 0,
     genDensity |-> 50, genBias |-> 0, genRange |-> 12, genNoteRand |-> 50,
     genVelVar |-> 20, genTies |-> 20, genGateRand |-> 0, fill |-> 0,
     track |-> Table([t \in Tracks |-> DefaultTrackParams(t)])]

IdentityOrder == Table([s \in StepIdx |-> s + 1])

\* construct(): the state of DTC, DRAM and SRAM after construction
construct ==
    [dtc |-> [transportState |-> TRANSPORT_STOPPED, recordState |-> REC_IDLE,
              prevGateHigh |-> FALSE, prevClockHigh |-> FALSE,
              stepTime |-> 0, stepDuration |-> InitStepDuration,
              lastRecord |-> 0, lastTrack |-> 0, lastClearTrack |-> 0, lastClearAll |-> 0,
              lastGenerate |-> 0, stepRecPos |-> 0,
              inputNotes |-> Table([n \in Notes |-> 0]), inputVel |-> 0,
              noteMap |-> Table([n \in Notes |-> n])],
     trackStates |-> Table([t \in Tracks |->
             [data |-> EmptySteps, shuffleOrder |-> IdentityOrder,
              playing |-> Table([n \in Notes |-> [where |-> {}, remaining |-> 0, outCh |-> 0,
                                            active |-> FALSE]]),
              activeNotes |-> Table([n \in Notes |-> 0]),
              clockCount |-> 0, divCounter |-> 0, loopCount |-> 0, step |-> 0,
              lastStep |-> 1, brownianPos |-> 1, shufflePos |-> 1, activeVel |-> 0,
              octavePlayCount |-> 0, lastEnabled |-> IF t = 0 THEN 1 ELSE 0,
              cache |-> [effectiveQuantize |-> 0, loopLen |-> 0, dirty |-> TRUE]]]),
     heldNotes |-> Table([n \in Notes |->
             [note |-> 0, velocity |-> 0, track |-> 0, quantizedStep |-> 0,
              effectiveStep |-> 0, quantize |-> 0, loopLen |-> 0, rawStep |-> 0,
              active |-> FALSE]]),
     delayedNotes |-> Table([i \in DelaySlots |->
             [note |-> 0, velocity |-> 0, track |-> 0, outCh |-> 0, duration |-> 0,
              delay |-> 0, where |-> {}, active |-> FALSE]])]

\* ------------------------------------------------------------- observations
\* What one handler call did, for the properties: the recorder transitions it made
\* (log), the track-level all-notes-off calls (offs), how often the delayed pool
\* was drained, the transport edges and clock ticks it processed, and the engine
\* as it stood when the clock section of step() was reached (preClock).
NoSnapshot == [taken |-> FALSE, recordState |-> REC_IDLE, trackStates |-> <<>>,
               outLen |-> 0]

\* no recording context was built
NoContext == [track |-> 0, loopLen |-> 0, quantize |-> 0, snapThreshold |-> 0,
              rawStep |-> 0, stepFraction |-> <<0, 1>>]

\* no block has sampled the inputs
NoCv == [gate |-> -1, clock |-> -1]

\* no MIDI message was accepted
NoMidi == [key |-> -1, on |-> FALSE, off |-> FALSE]

NewObs(handler, recBefore) ==
    [handler |-> handler, recBefore |-> recBefore, log |-> <<>>, offs |-> <<>>,
     drains |-> 0, starts |-> 0, stops |-> 0, ticks |-> 0,
     clockRising |-> FALSE, recordRose |-> FALSE, stepTimeAtAdd |-> 0,
     preClock |-> NoSnapshot, ctx |-> NoContext, panics |-> <<>>,
     baseSteps |-> <<>>, trackChanged |-> FALSE, heldCleared |-> {},
     quantized |-> <<>>, drops |-> <<>>, midi |-> NoMidi, keysDown |-> {},
     cv |-> NoCv, lowSeen |-> [gate |-> TRUE, clock |-> TRUE]]

\* the engine record the handlers work on
Alg(handler) ==
    [v |-> v, dtc |-> dtc, trackStates |-> trackStates, heldNotes |-> heldNotes,
     delayedNotes |-> delayedNotes, out |-> <<>>, phase |-> handler, cur |-> -1,
     obs |-> [NewObs(handler, dtc.recordState) EXCEPT !.keysDown = obs.keysDown,
                                                      !.lowSeen = obs.lowSeen]]

TrackDataOf(a) == Table([t \in Tracks |-> a.trackStates[t].data])
StepsOf(a) == Table([t \in Tracks |-> a.trackStates[t].step])

\* a recorder that goes live where the table has it wait for the transport
setRecordState_LiveWhileStopped(a, to, cause, before) ==
    LET to1 == IF to = REC_LIVE_PENDING THEN REC_LIVE ELSE to
    IN [a EXCEPT !.dtc.recordState = to1,
                 !.obs.log = Append(@, [from |-> a.dtc.recordState, to |-> to1,
                                        cause |-> cause,
                                        record |-> a.v.record,
                                        lastRecord |-> a.dtc.lastRecord,
                                        recMode |-> a.v.recMode,
                                        running |-> transportIsRunning(a.dtc.transportState),
                                        recTrack |-> clampParam(a.v.recTrack, 0, NumTracks - 1),
                                        dataBefore |-> TrackDataOf(before),
                                        dataAfter |-> TrackDataOf(a),
                                        heldBefore |-> before.heldNotes,
                                        heldAfter |-> a.heldNotes,
                                        stepBefore |-> StepsOf(before),
                                        ticks |-> a.obs.ticks])]

\* dtc->recordState = to, observed with the conditions under which it was made
setRecordState(a, to, cause, before) ==
    [a EXCEPT !.dtc.recordState = to,
              !.obs.log = Append(@, [from |-> a.dtc.recordState, to |-> to, cause |-> cause,
                                     record |-> a.v.record, lastRecord |-> a.dtc.lastRecord,
                                     recMode |-> a.v.recMode,
                                     running |-> transportIsRunning(a.dtc.transportState),
                                     recTrack |-> clampParam(a.v.recTrack, 0, NumTracks - 1),
                                     dataBefore |-> TrackDataOf(before),
                                     dataAfter |-> TrackDataOf(a),
                                     heldBefore |-> before.heldNotes,
                                     heldAfter |-> a.heldNotes,
                                     stepBefore |-> StepsOf(before),
                                     ticks |-> a.obs.ticks])]

\* ---------------------------------------------------------------- recording
RECURSIVE finalizeHeldNotesFrom(_, _)
finalizeHeldNotesFrom(a, noteNum) ==
    IF noteNum > MaxNote THEN a
    ELSE LET held == a.heldNotes[noteNum]
             track == safeTrackIndex(held.track)
             currentStep == clamp(a.trackStates[track].step, 1, held.loopLen)
             d0 == currentStep - held.effectiveStep
             d1 == IF d0 < 0 THEN d0 + held.loopLen ELSE d0
             d2 == IF d1 < 1 THEN 1 ELSE d1
             d3 == calcQuantizedDuration(d2, held.quantize)
             maxDuration == held.loopLen - held.quantizedStep + 1
             duration == IF d3 > maxDuration THEN maxDuration ELSE d3
             stepIdx == safeStepIndex(held.quantizedStep - 1)
         IN IF ~held.active THEN finalizeHeldNotesFrom(a, noteNum + 1)
            ELSE finalizeHeldNotesFrom(
                   [a EXCEPT !.trackStates[track].data[stepIdx] =
                                 addEvent(@, noteNum, held.velocity, U16(duration)),
                             !.heldNotes[noteNum].active = FALSE],
                   noteNum + 1)

finalizeHeldNotes(a) == finalizeHeldNotesFrom(a, 0)

clearHeldNotes_Nothing(a) == a

clearHeldNotes(a) ==
    [a EXCEPT !.heldNotes = Table([n \in Notes |-> [a.heldNotes[n] EXCEPT !.active = FALSE]])]

\* ---------------------------------------------------------------- transport
transportTransition_Start(current) == TRANSPORT_RUNNING
transportTransition_Stop(current) == TRANSPORT_STOPPED

\* a transport start that leaves the tracks' counters as they are
handleTransportStart_NoReset(a) ==
    LET a1 == [a EXCEPT !.dtc.stepTime = 0,
                        !.dtc.transportState = transportTransition_Start(@),
                        !.obs.starts = @ + 1]
        recTrack == clampParam(a.v.recTrack, 0, NumTracks - 1)
        a2 == IF a.v.recMode = REC_MODE_REPLACE THEN clearTrackEvents(a1, recTrack) ELSE a1
    IN IF a1.dtc.recordState = REC_LIVE_PENDING
       THEN setRecordState(a2, REC_LIVE, "start", a1)
       ELSE a1

\* a transport start that promotes a pending recording without the Replace clear
handleTransportStart_NoClear(a) ==
    LET a1 == [a EXCEPT
                 !.trackStates = Table([t \in Tracks |->
                     [a.trackStates[t] EXCEPT !.step = 0, !.clockCount = 0, !.divCounter = 0,
                                  !.loopCount = 0, !.lastStep = 1, !.brownianPos = 1,
                                  !.shufflePos = 1, !.octavePlayCount = 0,
                                  !.shuffleOrder = IdentityOrder]]),
                 !.dtc.stepTime = 0,
                 !.dtc.transportState = transportTransition_Start(@),
                 !.obs.starts = @ + 1]
    IN IF a1.dtc.recordState = REC_LIVE_PENDING
       THEN setRecordState(a1, REC_LIVE, "start", a1)
       ELSE a1

\* reset all tracks and start transport; promotes a pending live recording
handleTransportStart(a) ==
    LET a1 == [a EXCEPT
                 !.trackStates = Table([t \in Tracks |->
                     [a.trackStates[t] EXCEPT !.step = 0, !.clockCount = 0, !.divCounter = 0,
                                  !.loopCount = 0, !.lastStep = 1, !.brownianPos = 1,
                                  !.shufflePos = 1, !.octavePlayCount = 0,
                                  !.shuffleOrder = IdentityOrder]]),
                 !.dtc.stepTime = 0,
                 !.dtc.transportState = transportTransition_Start(@),
                 !.obs.starts = @ + 1]
        recTrack == clampParam(a.v.recTrack, 0, NumTracks - 1)
        a2 == IF a.v.recMode = REC_MODE_REPLACE THEN clearTrackEvents(a1, recTrack) ELSE a1
    IN IF a1.dtc.recordState = REC_LIVE_PENDING
       THEN setRecordState(a2, REC_LIVE, "start", a1)
       ELSE a1

\* a stop that leaves a LIVE recorder as it is
handleTransportStop_KeepsLive(a) ==
    LET a2 == [a EXCEPT !.dtc.transportState = transportTransition_Stop(@),
                        !.obs.stops = @ + 1]
        a3 == sendAllNotesOff(a2)
    IN [a3 EXCEPT
          !.trackStates = Table([t \in Tracks |->
              [a3.trackStates[t] EXCEPT
                  !.step = 0, !.clockCount = 0, !.divCounter = 0, !.loopCount = 0,
                  !.activeNotes = Table([n \in Notes |-> 0]),
                  !.playing = Table([n \in Notes |->
                                 [a3.trackStates[t].playing[n] EXCEPT !.active = FALSE]]),
                  !.activeVel = 0, !.brownianPos = 1, !.shufflePos = 1]]),
          !.delayedNotes = Table([i \in DelaySlots |->
                              [a3.delayedNotes[i] EXCEPT !.active = FALSE]]),
          !.dtc.stepTime = 0]

\* a transport stop that commits the held notes after the positions are reset
handleTransportStop_ResetsFirst(a) ==
    LET a0 == [a EXCEPT !.trackStates = Table([t \in Tracks |->
                            [a.trackStates[t] EXCEPT !.step = 0]])]
        a1 == IF a.dtc.recordState = REC_LIVE
              THEN setRecordState(finalizeHeldNotes(a0), REC_IDLE, "stop", a)
              ELSE a
        a2 == [a1 EXCEPT !.dtc.transportState = transportTransition_Stop(@),
                         !.obs.stops = @ + 1]
        a3 == sendAllNotesOff(a2)
    IN [a3 EXCEPT
          !.trackStates = Table([t \in Tracks |->
              [a3.trackStates[t] EXCEPT
                  !.step = 0, !.clockCount = 0, !.divCounter = 0, !.loopCount = 0,
                  !.activeNotes = Table([n \in Notes |-> 0]),
                  !.playing = Table([n \in Notes |->
                                 [a3.trackStates[t].playing[n] EXCEPT !.active = FALSE]]),
                  !.activeVel = 0, !.brownianPos = 1, !.shufflePos = 1]]),
          !.delayedNotes = Table([i \in DelaySlots |->
                              [a3.delayedNotes[i] EXCEPT !.active = FALSE]]),
          !.dtc.stepTime = 0]

\* a transport stop that leaves the delayed-note pool as it is
handleTransportStop_KeepsDelayed(a) ==
    LET a1 == IF a.dtc.recordState = REC_LIVE
              THEN setRecordState(finalizeHeldNotes(a), REC_IDLE, "stop", a)
              ELSE a
        a2 == [a1 EXCEPT !.dtc.transportState = transportTransition_Stop(@),
                         !.obs.stops = @ + 1]
        a3 == sendAllNotesOff(a2)
    IN [a3 EXCEPT
          !.trackStates = Table([t \in Tracks |->
              [a3.trackStates[t] EXCEPT
                  !.step = 0, !.clockCount = 0, !.divCounter = 0, !.loopCount = 0,
                  !.activeNotes = Table([n \in Notes |-> 0]),
                  !.playing = Table([n \in Notes |->
                                 [a3.trackStates[t].playing[n] EXCEPT !.active = FALSE]]),
                  !.activeVel = 0, !.brownianPos = 1, !.shufflePos = 1]]),
          !.dtc.stepTime = 0]

\* stop transport and clear all note state
handleTransportStop(a) ==
    LET a1 == IF a.dtc.recordState = REC_LIVE
              THEN setRecordState(finalizeHeldNotes(a), REC_IDLE, "stop", a)
              ELSE a
        a2 == [a1 EXCEPT !.dtc.transportState = transportTransition_Stop(@),
                         !.obs.stops = @ + 1]
        a3 == sendAllNotesOff(a2)
    IN [a3 EXCEPT
          !.trackStates = Table([t \in Tracks |->
              [a3.trackStates[t] EXCEPT
                  !.step = 0, !.clockCount = 0, !.divCounter = 0, !.loopCount = 0,
                  !.activeNotes = Table([n \in Notes |-> 0]),
                  !.playing = Table([n \in Notes |->
                                 [a3.trackStates[t].playing[n] EXCEPT !.active = FALSE]]),
                  !.activeVel = 0, !.brownianPos = 1, !.shufflePos = 1]]),
          !.delayedNotes = Table([i \in DelaySlots |->
                              [a3.delayedNotes[i] EXCEPT !.active = FALSE]]),
          !.dtc.stepTime = 0]

\* ------------------------------------------------------------ delayed notes
RECURSIVE processDelayedNotesFrom(_, _, _)
processDelayedNotesFrom(a, delayDecrement, i) ==
    IF i >= MaxDelayedNotes THEN a
    ELSE LET dn == a.delayedNotes[i]
             track == safeTrackIndex(dn.track)
             note == safeNoteIndex(dn.note)
             a1 == NT_sendMidi3ByteMessage([a EXCEPT !.cur = track], dn.where,
                                           withChannel(kMidiNoteOn, dn.outCh),
                                           dn.note, dn.velocity)
         IN IF ~dn.active THEN processDelayedNotesFrom(a, delayDecrement, i + 1)
            ELSE IF dn.delay <= delayDecrement
            THEN processDelayedNotesFrom(
                   [a1 EXCEPT !.cur = -1,
                              !.trackStates[track].playing[note].active = TRUE,
                              !.trackStates[track].playing[note].remaining = dn.duration,
                              !.trackStates[track].activeNotes[note] = dn.velocity,
                              !.trackStates[track].activeVel = dn.velocity,
                              !.delayedNotes[i].active = FALSE],
                   delayDecrement, i + 1)
            ELSE processDelayedNotesFrom(
                   [a EXCEPT !.delayedNotes[i].delay = @ - delayDecrement],
                   delayDecrement, i + 1)

\* a drain that goes through the delayed pool twice
processDelayedNotes_Twice(a, dt) ==
    processDelayedNotesFrom(
        processDelayedNotesFrom([a EXCEPT !.obs.drains = @ + 2], IF dt < 1 THEN 1 ELSE dt, 0),
        IF dt < 1 THEN 1 ELSE dt, 0)

\* dt in ms: delayDecrement = (int)(dt * 1000.0f), at least 1
processDelayedNotes(a, dt) ==
    processDelayedNotesFrom([a EXCEPT !.obs.drains = @ + 1], IF dt < 1 THEN 1 ELSE dt, 0)

RECURSIVE firstFreeDelaySlot(_, _)
firstFreeDelaySlot(a, di) ==
    IF di >= MaxDelayedNotes THEN -1
    ELSE IF ~a.delayedNotes[di].active THEN di ELSE firstFreeDelaySlot(a, di + 1)

\* a scheduler that takes slot 0 over when the pool is full
scheduleDelayedNote_Overwrite(a, note, velocity, track, outCh, duration, delay, where) ==
    LET di == firstFreeDelaySlot(a, 0)
    IN [a EXCEPT !.delayedNotes[IF di < 0 THEN 0 ELSE di] =
            [note |-> note, velocity |-> velocity, track |-> track, outCh |-> outCh,
             duration |-> duration, delay |-> delay, where |-> where, active |-> TRUE]]

\* first inactive slot of the pool, the note is dropped when the pool is full
\* (the drop is kept in drops, with the pool and the output at that point)
scheduleDelayedNote(a, note, velocity, track, outCh, duration, delay, where) ==
    LET di == firstFreeDelaySlot(a, 0)
    IN IF di < 0
       THEN [a EXCEPT !.obs.drops = Append(@, [note |-> note, track |-> track,
                                                pool |-> a.delayedNotes,
                                                outLen |-> Len(a.out)])]
       ELSE [a EXCEPT !.delayedNotes[di] =
                 [note |-> note, velocity |-> velocity, track |-> track, outCh |-> outCh,
                  duration |-> duration, delay |-> delay, where |-> where, active |-> TRUE]]

\* --------------------------------------------------- track-level notes off
ActiveOn(a, t) == {n \in Notes : a.trackStates[t].playing[n].active}

\* observation of one track-level all-notes-off call: the notes every track held
\* before it, each track's output channel and destination, the messages it sent
observeTrackOff(before, after, track, cause) ==
    [after EXCEPT !.obs.offs = Append(@,
        [track |-> track, cause |-> cause, phase |-> before.phase,
         starts |-> before.obs.starts, stops |-> before.obs.stops,
         ticks |-> before.obs.ticks, logLen |-> Len(before.obs.log),
         activeBefore |-> Table([t \in Tracks |-> ActiveOn(before, t)]),
         channel |-> Table([t \in Tracks |-> tpChannel(before, t)]),
         where |-> Table([t \in Tracks |-> destToWhere(tpDestination(before, t))]),
         sent |-> SubSeq(after.out, Len(before.out) + 1, Len(after.out)),
         activeAfter |-> ActiveOn(after, track),
         velAfter |-> {n \in Notes : after.trackStates[track].activeNotes[n] > 0}])]

\* ------------------------------------------------------------------- PRNG
\* randRange(state, min, max) on the raw draw x = nextRand(state)
randRange(x, min, max) == IF min >= max THEN min ELSE min + (x % (max - min + 1))

\* randFloat(state) * 100.0f compared with an integer percentage p: the draw is
\* the integer part pct of randFloat * 100, and  randFloat * 100 < p  iff  pct < p
rollBelow(pct, p) == pct < p

\* ------------------------------------------------------------------ scales
SCALE_OFF == 0
scaleIntervals ==
    << <<0, 2, 4, 5, 7, 9, 11>>, <<0, 2, 3, 5, 7, 9, 10>>, <<0, 1, 3, 5, 7, 8, 10>>,
       <<0, 2, 4, 6, 7, 9, 11>>, <<0, 2, 4, 5, 7, 9, 10>>, <<0, 2, 3, 5, 7, 8, 10>>,
       <<0, 1, 3, 5, 6, 8, 10>>, <<0, 2, 3, 5, 7, 8, 11>>, <<0, 2, 3, 5, 7, 9, 11>>,
       <<0, 2, 4, 7, 9, 0, 0>>, <<0, 3, 5, 7, 10, 0, 0>> >>
scaleSizes == <<7, 7, 7, 7, 7, 7, 7, 7, 7, 5, 5>>
PC_TO_WHITE_KEY == <<0, 0, 1, 1, 2, 3, 3, 4, 4, 5, 5, 6>>

quantizeToScale(note, root, scaleType) ==
    IF scaleType = SCALE_OFF THEN note
    ELSE LET scaleIdx == scaleType - 1
             scaleSize == scaleSizes[scaleIdx + 1]
             pc == note % 12
             octave == note \div 12
             whiteKeyIdx == PC_TO_WHITE_KEY[pc + 1]
             extraOctave == whiteKeyIdx \div scaleSize
             scaleDegree == whiteKeyIdx % scaleSize
             outNote == (octave + extraOctave) * 12 + root
                        + scaleIntervals[scaleIdx + 1][scaleDegree + 1]
         IN IF outNote < 0 THEN 0 ELSE IF outNote > MaxNote THEN MaxNote ELSE outNote

\* -------------------------------------------------------------- directions
dirForward(clockCount, loopLen) == ((clockCount - 1) % loopLen) + 1

dirReverse(clockCount, loopLen) == loopLen - ((clockCount - 1) % loopLen)

dirPendulum(clockCount, loopLen) ==
    LET cycle == 2 * (loopLen - 1)
        posInCycle == (clockCount - 1) % cycle
    IN IF posInCycle < loopLen THEN posInCycle + 1 ELSE 2 * loopLen - 1 - posInCycle

dirPingPong(clockCount, loopLen) ==
    LET cycle == 2 * loopLen
        posInCycle == (clockCount - 1) % cycle
    IN IF posInCycle < loopLen THEN posInCycle + 1 ELSE 2 * loopLen - posInCycle

dirStride(clockCount, loopLen, strideSize) == (((clockCount - 1) * strideSize) % loopLen) + 1

dirOddEven(clockCount, loopLen) ==
    LET pos == ((clockCount - 1) % loopLen) + 1
        numOdds == (loopLen + 1) \div 2
    IN IF pos <= numOdds THEN (pos - 1) * 2 + 1 ELSE (pos - numOdds) * 2

dirHopscotch(clockCount, loopLen) ==
    LET pos == ((clockCount - 1) % (loopLen * 2)) + 1
        stepIndex == (pos + 1) \div 2
        nextForward == (stepIndex % loopLen) + 1
    IN IF pos % 2 = 1 THEN ((stepIndex - 1) % loopLen) + 1
       ELSE ((nextForward - 2 + loopLen) % loopLen) + 1

dirConverge(clockCount, loopLen) ==
    LET pos == ((clockCount - 1) % loopLen) + 1
        pairIndex == (pos + 1) \div 2
    IN IF pos % 2 = 1 THEN pairIndex ELSE loopLen - pairIndex + 1

dirDiverge(clockCount, loopLen) ==
    LET pos == ((clockCount - 1) % loopLen) + 1
        mid == (loopLen + 1) \div 2
        pairIndex == (pos + 1) \div 2
    IN IF pos % 2 = 1 THEN mid - pairIndex + 1 ELSE mid + pairIndex

dirRandom(loopLen, x) == randRange(x, 1, loopLen)

\* the strategy table, x is the raw draw of dirRandom
getStepForClock(clockCount, loopLen, dir, strideSize, x) ==
    IF loopLen = 1 THEN 1
    ELSE IF clockCount < 1 THEN 0
    ELSE IF dir < 0 \/ dir >= NUM_DIRECTIONS THEN dirForward(clockCount, loopLen)
    ELSE CASE dir = 0 -> dirForward(clockCount, loopLen)
           [] dir = 1 -> dirReverse(clockCount, loopLen)
           [] dir = 2 -> dirPendulum(clockCount, loopLen)
           [] dir = 3 -> dirPingPong(clockCount, loopLen)
           [] dir = 4 -> dirStride(clockCount, loopLen, strideSize)
           [] dir = 5 -> dirOddEven(clockCount, loopLen)
           [] dir = 6 -> dirHopscotch(clockCount, loopLen)
           [] dir = 7 -> dirConverge(clockCount, loopLen)
           [] dir = 8 -> dirDiverge(clockCount, loopLen)
           [] dir = 9 -> dirForward(clockCount, loopLen)
           [] dir = 10 -> dirRandom(loopLen, x)
           [] dir = 11 -> dirForward(clockCount, loopLen)

updateBrownianStep(currentPos, loopLen, x) ==
    LET d0 == randRange(x, BROWNIAN_DELTA_MIN, BROWNIAN_DELTA_MAX)
        delta == IF d0 = 0 THEN 1 ELSE d0
        newPos == currentPos + delta
    IN ((newPos - 1 + loopLen * 100) % loopLen) + 1

\* Fisher-Yates from i = loopLen - 1 down to 1, js[i] the raw draw of pass i
RECURSIVE shufflePass(_, _, _)
shufflePass(order, i, js) ==
    IF i < 1 THEN order
    ELSE LET j == randRange(js[i], 0, i)
         IN shufflePass([order EXCEPT ![i] = order[j], ![j] = order[i]], i - 1, js)

generateShuffleOrder(order, loopLen, js) ==
    shufflePass(Table([s \in StepIdx |-> IF s < loopLen THEN s + 1 ELSE order[s]]), loopLen - 1, js)

wrapForward(prevPos, currPos, loopLen) == currPos = 1 /\ prevPos = loopLen
wrapReverse(prevPos, currPos, loopLen) == currPos = loopLen /\ prevPos = 1
wrapPendulum(prevPos, currPos, loopLen) ==
    (currPos = 1 /\ prevPos = 2) \/ (currPos = loopLen /\ prevPos = loopLen - 1)
wrapPingPong(loopLen, clockCount) == (clockCount - 1) % (2 * loopLen) = 0
wrapStride(currPos, clockCount) == clockCount > 1 /\ currPos = 1
wrapCyclic(loopLen, clockCount) == clockCount > 1 /\ ((clockCount - 1) % loopLen) = 0
wrapHopscotch(loopLen, clockCount) == clockCount > 1 /\ ((clockCount - 1) % (loopLen * 2)) = 0

\* wrap detection that answers a first tick like any other
detectWrap_FirstTick(prevPos, currPos, loopLen, dir, clockCount) ==
    IF loopLen <= 1 THEN currPos = 1 ELSE wrapForward(prevPos, currPos, loopLen)

detectWrap(prevPos, currPos, loopLen, dir, clockCount) ==
    IF prevPos < 1 THEN FALSE
    ELSE IF loopLen <= 1 THEN currPos = 1
    ELSE IF dir < 0 \/ dir >= NUM_DIRECTIONS THEN wrapForward(prevPos, currPos, loopLen)
    ELSE CASE dir = 0 -> wrapForward(prevPos, currPos, loopLen)
           [] dir = 1 -> wrapReverse(prevPos, currPos, loopLen)
           [] dir = 2 -> wrapPendulum(prevPos, currPos, loopLen)
           [] dir = 3 -> wrapPingPong(loopLen, clockCount)
           [] dir = 4 -> wrapStride(currPos, clockCount)
           [] dir = 6 -> wrapHopscotch(loopLen, clockCount)
           [] OTHER -> wrapCyclic(loopLen, clockCount)

\* --------------------------------------------------------------- modifiers
MASK_SPARSE_DIVISOR == 3
MASK_DENSE_DIVISOR == 4
tpPedalStep(a, t, loopLen) == clampParam(a.v.track[t].pedalStep, 1, loopLen)
tpGravityAnchor(a, t, loopLen) == clampParam(a.v.track[t].gravityAnchor, 1, loopLen)

\* r: the draws of this track's tick
applyModifiers(a, track, baseStep, loopLen, r) ==
    LET tp == a.v.track[track]
        lastStep == a.trackStates[track].lastStep
        s1 == IF tp.stability > 0 /\ rollBelow(r.stability, tp.stability)
              THEN (IF lastStep > 0 THEN lastStep ELSE baseStep) ELSE baseStep
        mj0 == (loopLen * tp.motion) \div 100
        maxJitter == IF mj0 < 1 THEN 1 ELSE mj0
        jitter == randRange(r.jitter, -maxJitter, maxJitter)
        s2 == IF tp.motion > 0 THEN ((s1 - 1 + jitter + loopLen * 100) % loopLen) + 1 ELSE s1
        s3 == IF tp.randomness > 0 /\ rollBelow(r.randomness, tp.randomness)
              THEN randRange(r.randomStep, 1, loopLen) ELSE s2
        diff == tpGravityAnchor(a, track, loopLen) - s3
        s4 == IF tp.gravity > 0 /\ rollBelow(r.gravity, tp.gravity) /\ diff # 0
              THEN ((s3 + (IF diff > 0 THEN 1 ELSE -1) - 1 + loopLen) % loopLen) + 1
              ELSE s3
    IN IF tp.pedal > 0 /\ rollBelow(r.pedal, tp.pedal)
       THEN tpPedalStep(a, track, loopLen) ELSE s4

\* mask patterns All, Odds, Evens, 1st Half, 2nd Half, Sparse, Dense, Random;
\* maskRoll[step] is the draw made when step is tested under the Random mask
isStepAllowed(step, loopLen, maskPattern, maskRoll) ==
    CASE maskPattern = 0 -> TRUE
      [] maskPattern = 1 -> step % 2 = 1
      [] maskPattern = 2 -> step % 2 = 0
      [] maskPattern = 3 -> step <= (loopLen + 1) \div 2
      [] maskPattern = 4 -> step > loopLen \div 2
      [] maskPattern = 5 -> step % MASK_SPARSE_DIVISOR = 1
      [] maskPattern = 6 -> step % MASK_DENSE_DIVISOR # 0
      [] maskPattern = 7 -> maskRoll[step] > 50
      [] OTHER -> TRUE

RECURSIVE nextAllowedStep(_, _, _, _, _)
nextAllowedStep(step, offset, loopLen, maskPattern, maskRoll) ==
    IF offset >= loopLen THEN step
    ELSE LET testStep == ((step - 1 + offset) % loopLen) + 1
         IN IF isStepAllowed(testStep, loopLen, maskPattern, maskRoll) THEN testStep
            ELSE nextAllowedStep(step, offset + 1, loopLen, maskPattern, maskRoll)

applyBinaryModifiers(a, track, step, prevStep, loopLen, r) ==
    LET tp == a.v.track[track]
        s1 == IF tp.noRepeat = 1 /\ step = prevStep /\ loopLen > 1
              THEN (step % loopLen) + 1 ELSE step
    IN IF ~isStepAllowed(s1, loopLen, tp.stepMask, r.maskRoll)
       THEN nextAllowedStep(s1, 1, loopLen, tp.stepMask, r.maskRoll)
       ELSE s1

\* ---------------------------------------------------------- trig conditions
ratioPeriod ==
    <<2, 2, 3, 3, 3, 4, 4, 4, 4, 5, 5, 5, 5, 5, 6, 6, 6, 6, 6, 6,
      7, 7, 7, 7, 7, 7, 7, 8, 8, 8, 8, 8, 8, 8, 8>>
ratioPos ==
    <<0, 1, 0, 1, 2, 0, 1, 2, 3, 0, 1, 2, 3, 4, 0, 1, 2, 3, 4, 5,
      0, 1, 2, 3, 4, 5, 6, 0, 1, 2, 3, 4, 5, 6, 7>>

evaluateTrigCondition(cond, loopCount, fillActive) ==
    IF cond = 0 THEN TRUE
    ELSE IF cond <= NUM_RATIOS
    THEN (loopCount % ratioPeriod[cond]) = ratioPos[cond]
    ELSE IF cond <= NUM_RATIOS * 2
    THEN (loopCount % ratioPeriod[cond - NUM_RATIOS]) # ratioPos[cond - NUM_RATIOS]
    ELSE CASE cond = 71 -> loopCount = 0
           [] cond = 72 -> loopCount # 0
           [] cond = 73 -> fillActive
           [] cond = 74 -> ~fillActive
           [] OTHER -> TRUE

\* ---------------------------------------------------------------- playback
kMaxVelocity == 127

\* note durations that are never processed
processNoteDurations_NoOff(a, track, where, outCh) == a

\* a countdown that lets a note expire one tick late
RECURSIVE processNoteDurationsFrom_Late(_, _, _, _, _)
processNoteDurationsFrom_Late(a, track, where, outCh, n) ==
    IF n > MaxNote THEN a
    ELSE LET pn == a.trackStates[track].playing[n]
             a1 == NT_sendMidi3ByteMessage(a, where, withChannel(kMidiNoteOff, outCh), n, 0)
             a2 == [a1 EXCEPT !.trackStates[track].playing[n].active = FALSE,
                              !.trackStates[track].activeNotes[n] = 0]
             hasActive == \E m \in Notes : a2.trackStates[track].activeNotes[m] > 0
             a3 == IF hasActive THEN a2 ELSE [a2 EXCEPT !.trackStates[track].activeVel = 0]
         IN IF ~pn.active THEN processNoteDurationsFrom_Late(a, track, where, outCh, n + 1)
            ELSE IF pn.remaining <= 0
            THEN processNoteDurationsFrom_Late(a3, track, where, outCh, n + 1)
            ELSE processNoteDurationsFrom_Late(
                   [a EXCEPT !.trackStates[track].playing[n].remaining = @ - 1],
                   track, where, outCh, n + 1)

RECURSIVE processNoteDurationsFrom(_, _, _, _, _)
processNoteDurationsFrom(a, track, where, outCh, n) ==
    IF n > MaxNote THEN a
    ELSE LET pn == a.trackStates[track].playing[n]
             a1 == NT_sendMidi3ByteMessage(a, where, withChannel(kMidiNoteOff, outCh), n, 0)
             a2 == [a1 EXCEPT !.trackStates[track].playing[n].active = FALSE,
                              !.trackStates[track].activeNotes[n] = 0]
             hasActive == \E m \in Notes : a2.trackStates[track].activeNotes[m] > 0
             a3 == IF hasActive THEN a2 ELSE [a2 EXCEPT !.trackStates[track].activeVel = 0]
         IN IF ~pn.active THEN processNoteDurationsFrom(a, track, where, outCh, n + 1)
            ELSE IF pn.remaining <= 1
            THEN processNoteDurationsFrom(a3, track, where, outCh, n + 1)
            ELSE processNoteDurationsFrom(
                   [a EXCEPT !.trackStates[track].playing[n].remaining = @ - 1],
                   track, where, outCh, n + 1)

processNoteDurations(a, track, where, outCh) ==
    processNoteDurationsFrom(a, track, where, outCh, 0)

\* returns the engine (brownianPos, shuffleOrder, shufflePos updated) and the step
calculateTrackStep(a, track, loopLen, dir, r) ==
    LET ts == a.trackStates[track]
        bp == IF ts.clockCount = 1 THEN 1
              ELSE U8(updateBrownianStep(ts.brownianPos, loopLen, r.brownian))
        reshuffle == ts.shufflePos > loopLen
        order == IF reshuffle THEN generateShuffleOrder(ts.shuffleOrder, loopLen, r.shuffle)
                 ELSE ts.shuffleOrder
        pos == IF reshuffle THEN 1 ELSE ts.shufflePos
    IN IF dir = DIR_BROWNIAN
       THEN [alg |-> [a EXCEPT !.trackStates[track].brownianPos = bp], step |-> bp]
       ELSE IF dir = DIR_SHUFFLE
       THEN [alg |-> [a EXCEPT !.trackStates[track].shuffleOrder = order,
                               !.trackStates[track].shufflePos = U8(pos + 1)],
             step |-> order[pos - 1]]
       ELSE [alg |-> a,
             step |-> getStepForClock(ts.clockCount, loopLen, dir,
                                      a.v.track[track].strideSize, r.random)]

\* handlePanicOnWrap, lines 263-275: every playing and delayed slot is deactivated
panicCleared(a1) ==
    [a1 EXCEPT
       !.trackStates = Table([t \in Tracks |->
           [a1.trackStates[t] EXCEPT
               !.playing = Table([n \in Notes |->
                              [a1.trackStates[t].playing[n] EXCEPT !.active = FALSE]]),
               !.activeNotes = Table([n \in Notes |-> 0]),
               !.activeVel = 0]]),
       !.delayedNotes = Table([i \in DelaySlots |->
                           [a1.delayedNotes[i] EXCEPT !.active = FALSE]])]

\* the panic made while track before.cur was processed, observed: the notes
\* playing before it, the messages it sent, the slots active after it
observePanic(before, after) ==
    [after EXCEPT !.obs.panics = Append(@,
        [track |-> before.cur,
         clockCount |-> before.trackStates[before.cur].clockCount,
         activeBefore |-> Table([t \in Tracks |-> ActiveOn(before, t)]),
         delayedBefore |-> {i \in DelaySlots : before.delayedNotes[i].active},
         sent |-> SubSeq(after.out, Len(before.out) + 1, Len(after.out)),
         activeAfter |-> Table([t \in Tracks |-> ActiveOn(after, t)]),
         countedAfter |-> Table([t \in Tracks |->
                              {n \in Notes : after.trackStates[t].activeNotes[n] > 0}]),
         delayedAfter |-> {i \in DelaySlots : after.delayedNotes[i].active}])]

\* sendAllNotesOff, then every playing and delayed slot is deactivated
handlePanicOnWrap(a) == observePanic(a, panicCleared(sendAllNotesOff(a)))

\* returns the engine (octavePlayCount updated) and the shift in semitones
calculateOctaveJump(a, track, r) ==
    LET tp == a.v.track[track]
        a1 == [a EXCEPT !.trackStates[track].octavePlayCount = U16(@ + 1)]
        count == a1.trackStates[track].octavePlayCount
    IN IF tp.octMin = 0 /\ tp.octMax = 0 THEN [alg |-> a, shift |-> 0]
       ELSE IF tp.octBypass > 0 /\ (count % tp.octBypass) = 0 THEN [alg |-> a1, shift |-> 0]
       ELSE IF rollBelow(r.octave, tp.octProb)
       THEN [alg |-> a1, shift |-> randRange(r.octaveJump, tp.octMin, tp.octMax) * 12]
       ELSE [alg |-> a1, shift |-> 0]

\* play or schedule a single note; x is the raw draw of the humanize delay
emitNote(a, track, ev, velOffset, humanize, outCh, where, noteShift, x) ==
    LET actualNote == quantizeToScale(clamp(ev.note + noteShift, 0, MaxNote),
                                      a.v.scaleRoot, a.v.scaleType)
        velocity == clamp(ev.velocity + velOffset, 0, kMaxVelocity)
        delay == IF humanize > 0 THEN randRange(x, 0, humanize) ELSE 0
        a1 == NT_sendMidi3ByteMessage(a, where, withChannel(kMidiNoteOn, outCh),
                                      actualNote, velocity)
    IN IF delay = 0
       THEN [a1 EXCEPT !.trackStates[track].playing[actualNote].active = TRUE,
                       !.trackStates[track].playing[actualNote].remaining = ev.duration,
                       !.trackStates[track].activeNotes[actualNote] = velocity,
                       !.trackStates[track].activeVel = velocity]
       ELSE scheduleDelayedNote(a, actualNote, velocity, track, outCh, ev.duration,
                                delay, where)

RECURSIVE emitEventsFrom(_, _, _, _, _, _, _, _, _, _)
emitEventsFrom(a, track, evs, e, velOffset, humanize, outCh, where, noteShift, r) ==
    IF e > Len(evs) THEN a
    ELSE emitEventsFrom(
             emitNote(a, track, evs[e], velOffset, humanize, outCh, where, noteShift,
                      r.delay[e]),
             track, evs, e + 1, velOffset, humanize, outCh, where, noteShift, r)

playTrackEvents(a, track, finalStep, velOffset, humanize, outCh, where, fixed, r) ==
    LET stepIdx == finalStep - 1
        evs == a.trackStates[track].data[stepIdx]
        oj == IF fixed THEN [alg |-> a, shift |-> 0] ELSE calculateOctaveJump(a, track, r)
    IN IF stepIdx < 0 \/ stepIdx >= MaxSteps THEN a
       ELSE IF Len(evs) = 0 THEN a
       ELSE emitEventsFrom(oj.alg, track, evs, 1, velOffset, humanize, outCh, where,
                           oj.shift, r)

\* processTrack, first part: note durations, the Enabled falling edge, the clock
\* count
processTrackHead(a0, track) ==
    LET outCh == tpChannel(a0, track)
        where == destToWhere(tpDestination(a0, track))
        enabled == tpEnabled(a0, track)
        a1 == processNoteDurations([a0 EXCEPT !.cur = track], track, where, outCh)
        a2 == IF ~enabled /\ a1.trackStates[track].lastEnabled = 1
              THEN observeTrackOff(a1, sendTrackNotesOffAt(a1, track, where, outCh),
                                   track, "disable")
              ELSE a1
    IN [a2 EXCEPT !.trackStates[track].lastEnabled = IF enabled THEN 1 ELSE 0,
                  !.trackStates[track].clockCount = U16(@ + 1)]

\* processTrack, the modifiers applied to the base step; returns the engine and
\* the final step
processTrackStep(base, track, loopLen, r) ==
    [alg |-> base.alg,
     step |-> applyBinaryModifiers(base.alg, track,
                                   applyModifiers(base.alg, track, base.step, loopLen, r),
                                   base.alg.trackStates[track].lastStep, loopLen, r)]

\* processTrack, the step is stored, a wrap counted and answered by the panic
processTrackWrap(a, track, prevPos, finalStep, loopLen, dir, panicOnWrap) ==
    LET a4 == [a EXCEPT !.trackStates[track].lastStep = U8(finalStep),
                        !.trackStates[track].step = U8(finalStep)]
        clockCount == a4.trackStates[track].clockCount
        wrapped == detectWrap(prevPos, finalStep, loopLen, dir, clockCount)
        a5 == IF wrapped /\ clockCount > 1
              THEN [a4 EXCEPT !.trackStates[track].loopCount = U16(@ + 1)] ELSE a4
    IN IF wrapped /\ panicOnWrap THEN handlePanicOnWrap(a5) ELSE a5

\* processTrack, last part: trig conditions, probability, the step's events
processTrackPlay(a0, a6, track, finalStep, r) ==
    LET tp == a0.v.track[track]
        loopCount == a6.trackStates[track].loopCount
        fillActive == a0.v.fill = 1
        atA == tp.condStepA > 0 /\ finalStep = tp.condStepA
        atB == tp.condStepB > 0 /\ finalStep = tp.condStepB
        stepCondMet == IF atB THEN evaluateTrigCondition(tp.condB, loopCount, fillActive)
                       ELSE IF atA THEN evaluateTrigCondition(tp.condA, loopCount, fillActive)
                       ELSE TRUE
        fixed == tp.stepCond = COND_FIXED \/ (atA /\ tp.condA = COND_FIXED)
                 \/ (atB /\ tp.condB = COND_FIXED)
        prob == IF fixed THEN 100 ELSE IF atB THEN tp.probB ELSE IF atA THEN tp.probA
                ELSE tp.stepProb
        a7 == IF /\ tpEnabled(a0, track)
                 /\ evaluateTrigCondition(tp.stepCond, loopCount, fillActive)
                 /\ stepCondMet
                 /\ (prob >= 100 \/ r.prob < prob)
              THEN playTrackEvents(a6, track, finalStep, tpVelocity(a0, track),
                                   tpHumanize(a0, track), tpChannel(a0, track),
                                   destToWhere(tpDestination(a0, track)), fixed, r)
              ELSE a6
    IN [a7 EXCEPT !.cur = -1]

\* processTrack from the final step fs (engine and step) on
processTrackFinish(a0, fs, track, prevPos, panicOnWrap, r) ==
    processTrackPlay(a0,
                     processTrackWrap(fs.alg, track, prevPos, fs.step, tpLength(a0, track),
                                      tpDirection(a0, track), panicOnWrap),
                     track, fs.step, r)

\* processTrack from the engine a3 left by its first part on
processTrackFrom(a0, a3, track, panicOnWrap, r) ==
    processTrackFinish(a0,
                       processTrackStep(calculateTrackStep(a3, track, tpLength(a0, track),
                                                           tpDirection(a0, track), r),
                                        track, tpLength(a0, track), r),
                       track, a3.trackStates[track].step, panicOnWrap, r)

\* process a single track on clock trigger; r: the draws of this track's tick
processTrack(a0, track, panicOnWrap, r) ==
    processTrackFrom(a0, processTrackHead(a0, track), track, panicOnWrap, r)

\* ---------------------------------------------------------------- generate
kMaxCollected == 128

\* a New pass that places a note on every step, on or off the division grid
RECURSIVE generateNewFrom_EveryStep(_, _, _, _, _, _)
generateNewFrom_EveryStep(a, track, s, loopLen, quantize, g) ==
    IF s > loopLen THEN a
    ELSE LET maxDur == IF quantize > 1 THEN quantize ELSE 1
             idx == safeStepIndex(s - 1)
         IN generateNewFrom_EveryStep(
                [a EXCEPT !.trackStates[track].data[idx] =
                              addEvent(@, clamp(a.v.genBias, 0, MaxNote), 100, U16(maxDur))],
                track, s + 1, loopLen, quantize, g)

\* g: the draws of one executeGenerate call
RECURSIVE generateNewFrom(_, _, _, _, _, _)
generateNewFrom(a, track, s, loopLen, quantize, g) ==
    IF s > loopLen THEN a
    ELSE LET spread == (a.v.genRange * a.v.genNoteRand) \div 100
             n0 == IF spread > 0 THEN a.v.genBias + randRange(g.note[s], -spread, spread)
                   ELSE a.v.genBias
             note == quantizeToScale(clamp(n0, 0, MaxNote), a.v.scaleRoot, a.v.scaleType)
             velSpread == (100 * a.v.genVelVar) \div 200
             v0 == IF velSpread > 0 THEN 100 + randRange(g.vel[s], -velSpread, velSpread)
                   ELSE 100
             vel == clamp(v0, 1, kMaxVelocity)
             maxDur == IF quantize > 1 THEN quantize ELSE 1
             m0 == maxDur - (maxDur * a.v.genGateRand) \div 100
             minDur == IF m0 < 1 THEN 1 ELSE m0
             durVal == IF minDur < maxDur THEN randRange(g.dur[s], minDur, maxDur) ELSE maxDur
             idx == safeStepIndex(s - 1)
         IN IF quantize > 1 /\ ((s - 1) % quantize) # 0
            THEN generateNewFrom(a, track, s + 1, loopLen, quantize, g)
            ELSE IF randRange(g.density[s], 1, 100) > a.v.genDensity
            THEN generateNewFrom(a, track, s + 1, loopLen, quantize, g)
            ELSE generateNewFrom(
                   [a EXCEPT !.trackStates[track].data[idx] = addEvent(@, note, vel, U16(durVal))],
                   track, s + 1, loopLen, quantize, g)

\* distance to the next occupied step, scanning forward with wrap; 0 when none
RECURSIVE nextOccupiedDist(_, _, _, _)
nextOccupiedDist(data, s, d, loopLen) ==
    IF d > loopLen - 1 THEN 0
    ELSE IF Len(data[(s + d) % loopLen]) > 0 THEN d
    ELSE nextOccupiedDist(data, s, d + 1, loopLen)

RECURSIVE generateTiesFrom(_, _, _, _, _)
generateTiesFrom(a, track, s, loopLen, g) ==
    IF s >= loopLen THEN a
    ELSE LET data == a.trackStates[track].data
             dist == nextOccupiedDist(data, s, 1, loopLen)
         IN IF Len(data[s]) = 0 \/ randRange(g.tie[s + 1], 1, 100) > a.v.genTies \/ dist = 0
            THEN generateTiesFrom(a, track, s + 1, loopLen, g)
            ELSE generateTiesFrom(
                   [a EXCEPT !.trackStates[track].data[s] =
                        List([e \in 1 .. Len(data[s]) |->
                            [data[s][e] EXCEPT !.duration = U16(dist)]])],
                   track, s + 1, loopLen, g)

generateNew(a, track, g) ==
    LET a1 == refreshCache(a, track)
        loopLen == cachedLoopLen(a1, track)
        quantize == cachedQuantize(a1, track)
        a2 == generateNewFrom(clearTrackEvents(a1, track), track, 1, loopLen, quantize, g)
    IN IF a.v.genTies > 0 THEN generateTiesFrom(a2, track, 0, loopLen, g) ELSE a2

\* the events of steps s .. loopLen - 1 in step order, at most kMaxCollected
RECURSIVE collectNotes(_, _, _)
collectNotes(data, s, loopLen) ==
    IF s >= loopLen THEN <<>> ELSE data[s] \o collectNotes(data, s + 1, loopLen)

RECURSIVE occupiedPositions(_, _, _)
occupiedPositions(data, s, loopLen) ==
    IF s >= loopLen THEN <<>>
    ELSE (IF Len(data[s]) > 0 THEN <<s>> ELSE <<>>) \o occupiedPositions(data, s + 1, loopLen)

\* Fisher-Yates on the collected notes (0-based index i is element i + 1)
RECURSIVE shuffleNotes(_, _, _)
shuffleNotes(collected, i, js) ==
    IF i < 1 THEN collected
    ELSE LET j == randRange(js[i], 0, i)
         IN shuffleNotes([collected EXCEPT ![i + 1] = collected[j + 1],
                                           ![j + 1] = collected[i + 1]], i - 1, js)

RECURSIVE redistribute(_, _, _, _, _)
redistribute(a, track, positions, collected, p) ==
    IF p > Len(positions) \/ p > Len(collected) THEN a
    ELSE redistribute(
           [a EXCEPT !.trackStates[track].data[positions[p]] =
                addEvent(@, collected[p].note, collected[p].velocity, collected[p].duration)],
           track, positions, collected, p + 1)

generateReorder(a, track, g) ==
    LET a1 == refreshCache(a, track)
        loopLen == cachedLoopLen(a1, track)
        data == a1.trackStates[track].data
        all == collectNotes(data, 0, loopLen)
        collected == SubSeq(all, 1, Min(Len(all), kMaxCollected))
        positions == occupiedPositions(data, 0, loopLen)
        shuffled == shuffleNotes(collected, Len(collected) - 1, g.reorder)
    IN IF Len(collected) = 0 THEN a1
       ELSE redistribute(clearTrackEvents(a1, track), track, positions, shuffled, 1)

generateRepitch(a, track, g) ==
    LET a1 == refreshCache(a, track)
        loopLen == cachedLoopLen(a1, track)
        spread == (a.v.genRange * a.v.genNoteRand) \div 100
        pitch(s, e) ==
            quantizeToScale(
                clamp(IF spread > 0 THEN a.v.genBias + randRange(g.pitch[s][e], -spread, spread)
                      ELSE a.v.genBias, 0, MaxNote),
                a.v.scaleRoot, a.v.scaleType)
    IN [a1 EXCEPT !.trackStates[track].data = Table([s \in StepIdx |->
            IF s < loopLen
            THEN List([e \in 1 .. Len(a1.trackStates[track].data[s]) |->
                    [a1.trackStates[track].data[s][e] EXCEPT !.note = pitch(s, e)]])
            ELSE a1.trackStates[track].data[s]])]

clampDurations(evs, maxDur) ==
    List([e \in 1 .. Len(evs) |-> IF evs[e].duration > maxDur
                             THEN [evs[e] EXCEPT !.duration = maxDur] ELSE evs[e]])

RECURSIVE invertFrom(_, _, _, _)
invertFrom(data, left, right, loopLen) ==
    IF left >= right THEN data
    ELSE invertFrom([data EXCEPT
                        ![left] = clampDurations(data[right], U16(loopLen - left)),
                        ![right] = clampDurations(data[left], U16(loopLen - right))],
                    left + 1, right - 1, loopLen)

generateInvert(a, track) ==
    LET a1 == refreshCache(a, track)
        loopLen == cachedLoopLen(a1, track)
    IN [a1 EXCEPT !.trackStates[track].data = invertFrom(@, 0, loopLen - 1, loopLen)]

executeGenerate(a, track, g) ==
    IF track < 0 \/ track >= NumTracks THEN a
    ELSE LET a1 == observeTrackOff(a, sendTrackNotesOff(a, track), track, "generate")
             mode == a.v.genMode
         IN CASE mode = GEN_MODE_NEW -> generateNew(a1, track, g)
              [] mode = GEN_MODE_REORDER -> generateReorder(a1, track, g)
              [] mode = GEN_MODE_REPITCH -> generateRepitch(a1, track, g)
              [] mode = GEN_MODE_INVERT -> generateInvert(a1, track)
              [] OTHER -> a1

\* ------------------------------------------------------- recording (MIDI in)
\* returns the engine (cache refreshed) and the context
createRecordingContext(a, track, currentStep, stepTime, stepDuration) ==
    LET a1 == refreshCache(a, track)
        loopLen == cachedLoopLen(a1, track)
    IN [alg |-> a1,
        ctx |-> [track |-> track, loopLen |-> loopLen, quantize |-> cachedQuantize(a1, track),
                 snapThreshold |-> a.v.recSnap,
                 rawStep |-> clamp(currentStep, 1, loopLen),
                 stepFraction |-> stepFractionOf(stepTime, stepDuration)]]

\* the recording context a handler worked with, observed
withContext(a, ctx) == [a EXCEPT !.obs.ctx = ctx]

recordNoteOn(a, ctx, note, velocity) ==
    [a EXCEPT !.heldNotes[note] =
        [active |-> TRUE, note |-> note, velocity |-> velocity, track |-> U8(ctx.track),
         quantizedStep |-> U8(snapToDivisionSubclock(ctx.rawStep, ctx.stepFraction, ctx.quantize,
                                                     ctx.snapThreshold, ctx.loopLen)),
         effectiveStep |-> U8(snapStepSubclock(ctx.rawStep, ctx.stepFraction,
                                               ctx.snapThreshold, ctx.loopLen)),
         quantize |-> U8(ctx.quantize), loopLen |-> U8(ctx.loopLen),
         rawStep |-> U8(ctx.rawStep)]]

recordNoteOff(a, ctx, note) ==
    LET held == a.heldNotes[note]
        effectiveEndStep == snapStepSubclock(ctx.rawStep, ctx.stepFraction, ctx.snapThreshold,
                                             held.loopLen)
        d0 == effectiveEndStep - held.effectiveStep
        d1 == IF d0 < 0 THEN d0 + held.loopLen ELSE d0
        d2 == IF d1 < 1 THEN 1 ELSE d1
        d3 == calcQuantizedDuration(d2, held.quantize)
        maxDuration == held.loopLen - held.quantizedStep + 1
        duration == IF d3 > maxDuration THEN maxDuration ELSE d3
        heldTrack == safeTrackIndex(held.track)
        heldStepIdx == safeStepIndex(held.quantizedStep - 1)
    IN IF ~held.active THEN a
       ELSE [a EXCEPT !.trackStates[heldTrack].data[heldStepIdx] =
                          addEvent(@, note, held.velocity, U16(duration)),
                      !.heldNotes[note].active = FALSE]

stepRecordNoteOn(a, track, note, velocity) ==
    LET a1 == refreshCache(a, track)
        loopLen == cachedLoopLen(a1, track)
        quantize == cachedQuantize(a1, track)
        rawStep == (a.dtc.stepRecPos - 1) * quantize + 1
        maxDuration == loopLen - rawStep + 1
        duration == IF quantize > maxDuration THEN maxDuration ELSE quantize
        stepIdx == safeStepIndex(rawStep - 1)
    IN IF a.dtc.stepRecPos = 0 THEN a
       ELSE [a1 EXCEPT !.trackStates[safeTrackIndex(track)].data[stepIdx] =
                           addEvent(@, note, velocity, U16(duration))]

stepRecordNoteOff(a, track, note) ==
    LET a1 == refreshCache(a, track)
        numDivSteps == cachedLoopLen(a1, track) \div cachedQuantize(a1, track)
    IN IF a.dtc.stepRecPos = 0 THEN a
       ELSE IF \E n \in Notes : a.dtc.inputNotes[n] # 0 THEN a
       ELSE [a1 EXCEPT !.dtc.stepRecPos = IF @ + 1 > numDivSteps THEN 1 ELSE @ + 1]

\* midiMessage() lines 423-430: scale quantization of an incoming note
midiNoteMap(a0, isNoteOn, byte1in) ==
    IF isNoteOn
    THEN [a0 EXCEPT !.dtc.noteMap[byte1in] = quantizeToScale(byte1in, a0.v.scaleRoot, a0.v.scaleType)]
    ELSE a0

\* midiMessage() lines 432-438: pass-through when the input channel differs
midiPassThrough(a1, track, status, channel, isNote, byte1, byte2) ==
    IF isNote /\ channel + 1 # tpChannel(a1, track)
    THEN NT_sendMidi3ByteMessage(a1, destToWhere(tpDestination(a1, track)),
                                 withChannel(status, tpChannel(a1, track)), byte1, byte2)
    ELSE a1

\* midiMessage() lines 440-457: input display state
midiInputDisplay(a2, isNoteOn, isNoteOff, byte1, byte2) ==
    LET cleared == [a2.dtc.inputNotes EXCEPT ![byte1] = 0]
    IN IF isNoteOn
       THEN [a2 EXCEPT !.dtc.inputNotes[byte1] = 1, !.dtc.inputVel = byte2]
       ELSE IF isNoteOff
       THEN [a2 EXCEPT !.dtc.inputNotes = cleared,
                       !.dtc.inputVel = IF \E n \in Notes : cleared[n] # 0 THEN @ ELSE 0]
       ELSE a2

\* midiMessage() lines 472-480: live recording of the message
midiLiveRecord(rc, isNoteOn, isNoteOff, byte1, byte2) ==
    IF isNoteOn THEN recordNoteOn(withContext(rc.alg, rc.ctx), rc.ctx, byte1, byte2)
    ELSE IF isNoteOff THEN recordNoteOff(withContext(rc.alg, rc.ctx), rc.ctx, byte1)
    ELSE withContext(rc.alg, rc.ctx)

\* midiMessage() lines 459-480: step recording, then live recording
midiRecord(a3, track, isNoteOn, isNoteOff, byte1, byte2) ==
    IF a3.dtc.recordState = REC_STEP
    THEN (IF isNoteOn THEN stepRecordNoteOn(a3, track, byte1, byte2)
          ELSE IF isNoteOff THEN stepRecordNoteOff(a3, track, byte1) ELSE a3)
    ELSE IF a3.dtc.recordState # REC_LIVE THEN a3
    ELSE midiLiveRecord(createRecordingContext(a3, track, a3.trackStates[track].step,
                                               a3.dtc.stepTime, a3.dtc.stepDuration),
                        isNoteOn, isNoteOff, byte1, byte2)

\* midiMessage() after the channel filter
midiAccepted(a1, track, status, channel, isNoteOn, isNoteOff, byte1, byte2) ==
    midiRecord(midiInputDisplay(midiPassThrough(a1, track, status, channel,
                                                isNoteOn \/ isNoteOff, byte1, byte2),
                                isNoteOn, isNoteOff, byte1, byte2),
               track, isNoteOn, isNoteOff, byte1, byte2)

\* observation of an accepted message: its key as received, and the keys that are
\* down on the input channel after it
midiObserved(a0, isNoteOn, isNoteOff, byte1in) ==
    [a0 EXCEPT !.obs.midi = [key |-> byte1in, on |-> isNoteOn, off |-> isNoteOff],
               !.obs.keysDown = IF isNoteOn THEN @ \cup {byte1in}
                                ELSE IF isNoteOff THEN @ \ {byte1in} ELSE @]

\* midiMessage(): status and channel are byte0 & 0xF0 and byte0 & 0x0F
midiMessage(a0, status, channel, byte1in, byte2) ==
    LET track == clampParam(a0.v.recTrack, 0, NumTracks - 1)
        isNoteOn == status = kMidiNoteOn /\ byte2 > 0
        isNoteOff == status = kMidiNoteOff \/ (status = kMidiNoteOn /\ byte2 = 0)
        byte1 == IF isNoteOn THEN quantizeToScale(byte1in, a0.v.scaleRoot, a0.v.scaleType)
                 ELSE IF isNoteOff THEN a0.dtc.noteMap[byte1in] ELSE byte1in
    IN IF a0.v.midiInCh > 0 /\ channel # a0.v.midiInCh - 1 THEN a0
       ELSE midiAccepted(midiNoteMap(midiObserved(a0, isNoteOn, isNoteOff, byte1in),
                                     isNoteOn, byte1in),
                         track, status, channel, isNoteOn, isNoteOff, byte1, byte2)

\* a callback that resets the cursor but leaves the cache of a track whose Length
\* changed
parameterChanged_KeepCache(a, p, track) ==
    IF p = "recDivision"
    THEN [a EXCEPT !.trackStates = Table([t \in Tracks |->
                                      [a.trackStates[t] EXCEPT !.cache.dirty = TRUE]]),
                   !.dtc.stepRecPos = IF a.dtc.recordState = REC_STEP THEN 1 ELSE @]
    ELSE IF p = "length" /\ track >= 0 /\ track < NumTracks
    THEN [a EXCEPT !.dtc.stepRecPos = IF track = a.v.recTrack /\ a.dtc.recordState = REC_STEP
                                      THEN 1 ELSE @]
    ELSE a

\* parameterChanged(): p names the parameter, track its track (-1 for a global one)
parameterChanged(a, p, track) ==
    IF p = "recDivision"
    THEN [a EXCEPT !.trackStates = Table([t \in Tracks |->
                                      [a.trackStates[t] EXCEPT !.cache.dirty = TRUE]]),
                   !.dtc.stepRecPos = IF a.dtc.recordState = REC_STEP THEN 1 ELSE @]
    ELSE IF p = "length" /\ track >= 0 /\ track < NumTracks
    THEN [a EXCEPT !.trackStates[track].cache.dirty = TRUE,
                   !.dtc.stepRecPos = IF track = a.v.recTrack /\ a.dtc.recordState = REC_STEP
                                      THEN 1 ELSE @]
    ELSE a

\* ------------------------------------------------------------------ step()
\* a Clear Track section that acts on the level of the parameter
clearTrackSection_Level(a) ==
    LET clearTrack == a.v.clearTrack
        track == clampParam(a.v.recTrack, 0, NumTracks - 1)
    IN IF clearTrack = 1
       THEN [clearTrackEvents(
                 observeTrackOff(a, sendTrackNotesOff(a, track), track, "clearTrack"),
                 track) EXCEPT !.dtc.lastClearTrack = clearTrack]
       ELSE [a EXCEPT !.dtc.lastClearTrack = clearTrack]

\* lines 252-261: Clear Track edge
clearTrackSection(a) ==
    LET clearTrack == a.v.clearTrack
        track == clampParam(a.v.recTrack, 0, NumTracks - 1)
        a1 == IF clearTrack = 1
              THEN clearTrackEvents(
                       observeTrackOff(a, sendTrackNotesOff(a, track), track, "clearTrack"),
                       track)
              ELSE a
    IN IF clearTrack # a.dtc.lastClearTrack
       THEN [a1 EXCEPT !.dtc.lastClearTrack = clearTrack] ELSE a

RECURSIVE clearAllFrom(_, _)
clearAllFrom(a, t) ==
    IF t >= NumTracks THEN a
    ELSE clearAllFrom(
             clearTrackEvents(observeTrackOff(a, sendTrackNotesOff(a, t), t, "clearAll"), t),
             t + 1)

\* lines 263-273: Clear All edge
clearAllSection(a) ==
    LET clearAll == a.v.clearAll
        a1 == IF clearAll = 1 THEN clearAllFrom(a, 0) ELSE a
    IN IF clearAll # a.dtc.lastClearAll
       THEN [a1 EXCEPT !.dtc.lastClearAll = clearAll] ELSE a

\* lines 275-283: Generate edge
generateSection(a, g) ==
    LET generate == a.v.generate
        track == clampParam(a.v.recTrack, 0, NumTracks - 1)
        a1 == IF generate = 1 THEN executeGenerate(a, track, g) ELSE a
    IN IF generate # a.dtc.lastGenerate
       THEN [a1 EXCEPT !.dtc.lastGenerate = generate] ELSE a

\* a recorder section that is not run
recorderSection_Skipped(a0) == a0

\* lines 289-373: recording state machine evaluation
recorderSection(a0) ==
    LET record == a0.v.record
        recMode == a0.v.recMode
        recTrack == clampParam(a0.v.recTrack, 0, NumTracks - 1)
        isStepMode == recMode = REC_MODE_STEP
        a1 == IF recTrack # a0.dtc.lastTrack
              THEN [clearHeldNotes(a0) EXCEPT
                       !.dtc.stepRecPos = IF a0.dtc.recordState = REC_STEP THEN 1 ELSE @,
                       !.dtc.lastTrack = recTrack,
                       !.obs.trackChanged = TRUE,
                       !.obs.heldCleared = {n \in Notes : a0.heldNotes[n].active}]
              ELSE a0
        a == [a1 EXCEPT !.obs.recordRose = (record = 1 /\ a0.dtc.lastRecord # 1)]
        recordChanged == record # a.dtc.lastRecord
        running == transportIsRunning(a.dtc.transportState)
        cleared == IF recMode = REC_MODE_REPLACE THEN clearTrackEvents(a, recTrack) ELSE a
        state == a.dtc.recordState
        a2 == CASE state = REC_IDLE ->
                     IF recordChanged /\ record = 1
                     THEN IF isStepMode
                          THEN setRecordState([a EXCEPT !.dtc.stepRecPos = 1], REC_STEP,
                                              "recorder", a)
                          ELSE IF running THEN setRecordState(cleared, REC_LIVE, "recorder", a)
                          ELSE setRecordState(a, REC_LIVE_PENDING, "recorder", a)
                     ELSE a
                [] state = REC_LIVE ->
                     IF recordChanged /\ record = 0
                     THEN setRecordState(finalizeHeldNotes(a), REC_IDLE, "recorder", a)
                     ELSE IF isStepMode
                     THEN setRecordState([finalizeHeldNotes(a) EXCEPT !.dtc.stepRecPos = 1],
                                         REC_STEP, "recorder", a)
                     ELSE a
                [] state = REC_STEP ->
                     IF recordChanged /\ record = 0
                     THEN setRecordState([a EXCEPT !.dtc.stepRecPos = 0], REC_IDLE,
                                         "recorder", a)
                     ELSE IF ~isStepMode
                     THEN IF running
                          THEN setRecordState([cleared EXCEPT !.dtc.stepRecPos = 0], REC_LIVE,
                                              "recorder", a)
                          ELSE setRecordState([a EXCEPT !.dtc.stepRecPos = 0],
                                              REC_LIVE_PENDING, "recorder", a)
                     ELSE a
                [] state = REC_LIVE_PENDING ->
                     IF recordChanged /\ record = 0
                     THEN setRecordState(a, REC_IDLE, "recorder", a)
                     ELSE IF isStepMode
                     THEN setRecordState([a EXCEPT !.dtc.stepRecPos = 1], REC_STEP,
                                         "recorder", a)
                     ELSE IF running THEN setRecordState(cleared, REC_LIVE, "pending", a)
                     ELSE a
                [] OTHER -> a
    IN [a2 EXCEPT !.dtc.lastRecord = record]

RECURSIVE processTracksFrom(_, _, _, _)
processTracksFrom(a, t, panicOnWrap, rnd) ==
    IF t >= NumTracks THEN a
    ELSE LET clockDiv == tpClockDiv(a, t)
             divCounter == U16(a.trackStates[t].divCounter + 1)
         IN IF divCounter >= clockDiv
            THEN processTracksFrom(
                   processTrack([a EXCEPT !.trackStates[t].divCounter = 0], t, panicOnWrap,
                                rnd.trk[t]),
                   t + 1, panicOnWrap, rnd)
            ELSE processTracksFrom([a EXCEPT !.trackStates[t].divCounter = divCounter],
                                   t + 1, panicOnWrap, rnd)

\* lines 375-394: clock trigger processing; stepTime > 0.001f is stepTime > 1 ms
clockSection(a, rnd) ==
    IF a.obs.clockRising /\ transportIsRunning(a.dtc.transportState)
    THEN processTracksFrom(
             [a EXCEPT !.dtc.stepDuration = IF a.dtc.stepTime > 1 THEN a.dtc.stepTime ELSE @,
                       !.dtc.stepTime = 0,
                       !.obs.ticks = @ + 1],
             0, a.v.panicOnWrap = 1, rnd)
    ELSE a

\* step(), lines 221-246: the Run and Clock inputs, the transport edges.  gateVal
\* and clockVal are the last frame of the Run and Clock buses (tenths of a volt)
transportSection(a0, gateVal, clockVal) ==
    LET gv == IF a0.v.runInput > 0 THEN gateVal ELSE 0
        cv == IF a0.v.clockInput > 0 THEN clockVal ELSE 0
        gateHigh == gv > GATE_THRESHOLD_HIGH
        gateLow == gv < GATE_THRESHOLD_LOW
        clockHigh == cv > GATE_THRESHOLD_HIGH
        clockLow == cv < GATE_THRESHOLD_LOW
        t0 == [a0 EXCEPT !.phase = "transport"]
        a1 == IF gateHigh /\ ~a0.dtc.prevGateHigh THEN handleTransportStart(t0)
              ELSE IF gateLow /\ a0.dtc.prevGateHigh THEN handleTransportStop(t0)
              ELSE t0
    IN [a1 EXCEPT !.dtc.prevGateHigh = gateHigh /\ ~gateLow,
                  !.dtc.prevClockHigh = clockHigh /\ ~clockLow,
                  !.obs.clockRising = clockHigh /\ ~a0.dtc.prevClockHigh,
                  !.obs.cv = [gate |-> gv, clock |-> cv],
                  !.obs.lowSeen =
                      [gate |-> IF gateHigh /\ ~a0.dtc.prevGateHigh THEN FALSE
                                ELSE @.gate \/ gateLow,
                       clock |-> IF clockHigh /\ ~a0.dtc.prevClockHigh THEN FALSE
                                 ELSE @.clock \/ clockLow]]

\* step(): stepTime += dt; a stopped transport never reads stepTime before the
\* next start resets it, there it is kept at MaxStepTime
addStepTime(a4, dt) ==
    [a4 EXCEPT !.dtc.stepTime = IF transportIsRunning(a4.dtc.transportState)
                                THEN @ + dt ELSE Min(@ + dt, MaxStepTime),
               !.obs.stepTimeAtAdd = IF transportIsRunning(a4.dtc.transportState)
                                     THEN a4.dtc.stepTime + dt ELSE 0]

\* the section of step() the engine has reached, for the messages it sends
atPhase(a, phase) == [a EXCEPT !.phase = phase]

\* the engine as it stands when the clock section is reached
beforeClock(a7) ==
    [a7 EXCEPT !.phase = "clock",
               !.obs.preClock = [taken |-> TRUE, recordState |-> a7.dtc.recordState,
                                 trackStates |-> a7.trackStates,
                                 outLen |-> Len(a7.out)]]

\* step(): one audio block.  dt is the block duration (ms), rnd the draws
step(a0, gateVal, clockVal, dt, rnd) ==
    clockSection(
        beforeClock(
            recorderSection(atPhase(
                processDelayedNotes(atPhase(addStepTime(
                    generateSection(atPhase(
                        clearAllSection(clearTrackSection(atPhase(
                            transportSection(a0, gateVal, clockVal), "clear"))),
                        "generate"), rnd.gen),
                    dt), "delayed"), dt),
                "recorder"))),
        rnd)

\* ------------------------------------------------------------------- draws
Pct(p) == IF p > 0 THEN {0, 100} ELSE {0}

EventCounts(t) == {Len(trackStates[t].data[s]) : s \in StepIdx}

MaxEventsOn(t) == CHOOSE k \in EventCounts(t) : \A j \in EventCounts(t) : j <= k

\* events a step of track t can hold when it is played in this block: those
\* stored, those a finalize or a Generate of this block can add
MaxPlayable(t) ==
    Min(MAX_EVENTS_PER_STEP,
        MaxEventsOn(t) + Cardinality({n \in Notes : heldNotes[n].active})
          + (IF v.generate = 1 /\ dtc.lastGenerate # 1 THEN 1 ELSE 0))

RECURSIVE CountEvents(_, _)
CountEvents(t, s) ==
    IF s >= MaxSteps THEN 0 ELSE Len(trackStates[t].data[s]) + CountEvents(t, s + 1)

\* the draws one tick of track t can make under the track's parameters; the
\* shuffle draws are made when the order is regenerated, one per pass
TrackDraws(t) ==
    LET tp == v.track[t]
        len == clampParam(tp.length, 1, MaxSteps)
        mj0 == (len * tp.motion) \div 100
        maxJitter == IF mj0 < 1 THEN 1 ELSE mj0
    IN [brownian : IF tp.direction = DIR_BROWNIAN
                   THEN 0 .. (BROWNIAN_DELTA_MAX - BROWNIAN_DELTA_MIN) ELSE {0},
        shuffle : IF tp.direction = DIR_SHUFFLE /\ trackStates[t].shufflePos > len
                  THEN {f \in [1 .. MaxSteps - 1 -> 0 .. MaxSteps - 1] :
                            \A i \in 1 .. MaxSteps - 1 : f[i] <= (IF i < len THEN i ELSE 0)}
                  ELSE {[i \in 1 .. MaxSteps - 1 |-> 0]},
        random : IF tp.direction = 10 THEN 0 .. len - 1 ELSE {0},
        stability : Pct(tp.stability),
        jitter : IF tp.motion > 0 THEN 0 .. 2 * maxJitter ELSE {0},
        randomness : Pct(tp.randomness),
        randomStep : IF tp.randomness > 0 THEN 0 .. len - 1 ELSE {0},
        gravity : Pct(tp.gravity),
        pedal : Pct(tp.pedal),
        maskRoll : IF tp.stepMask = 7 THEN [1 .. MaxSteps -> {0, 100}]
                   ELSE {[i \in 1 .. MaxSteps |-> 0]},
        prob : IF tp.stepProb < 100 \/ tp.probA < 100 \/ tp.probB < 100
               THEN {0, 100} ELSE {0},
        octave : IF tp.octMin # 0 \/ tp.octMax # 0 THEN Pct(tp.octProb) ELSE {0},
        octaveJump : IF tp.octMax > tp.octMin THEN 0 .. tp.octMax - tp.octMin ELSE {0},
        delay : IF tp.humanize > 0 THEN [1 .. MaxPlayable(t) -> 0 .. tp.humanize]
                ELSE {[e \in 1 .. MAX_EVENTS_PER_STEP |-> 0]}]

ZeroDraw == [i \in 1 .. MaxSteps |-> 0]

\* the draws executeGenerate can make under the Generate parameters
GenDraws ==
    LET fires == v.generate = 1 /\ dtc.lastGenerate # 1
        new == fires /\ v.genMode = GEN_MODE_NEW
        spread == (v.genRange * v.genNoteRand) \div 100
        velSpread == (100 * v.genVelVar) \div 200
        rt == clampParam(v.recTrack, 0, NumTracks - 1)
        count == CountEvents(rt, 0) - 1
    IN [density : IF new /\ v.genDensity < 100 THEN [1 .. MaxSteps -> {0, 99}] ELSE {ZeroDraw},
        note : IF new /\ spread > 0 THEN [1 .. MaxSteps -> 0 .. 2 * spread] ELSE {ZeroDraw},
        vel : IF new /\ velSpread > 0 THEN [1 .. MaxSteps -> {0, 2 * velSpread}]
              ELSE {ZeroDraw},
        dur : IF new /\ v.genGateRand > 0 THEN [1 .. MaxSteps -> 0 .. MaxSteps - 1]
              ELSE {ZeroDraw},
        tie : IF new /\ v.genTies > 0 THEN [1 .. MaxSteps -> {0, 99}] ELSE {ZeroDraw},
        reorder : IF fires /\ v.genMode = GEN_MODE_REORDER
                  THEN {f \in [1 .. count -> 0 .. count] : \A i \in 1 .. count : f[i] <= i}
                  ELSE {[i \in 1 .. count |-> 0]},
        pitch : IF fires /\ v.genMode = GEN_MODE_REPITCH /\ spread > 0
                THEN [StepIdx -> [1 .. MaxEventsOn(rt) -> 0 .. 2 * spread]]
                ELSE {[s \in StepIdx |-> [e \in 1 .. MaxEventsOn(rt) |-> 0]]}]

Draws == [trk : {f \in [Tracks -> UNION {TrackDraws(t) : t \in Tracks}] :
                     \A t \in Tracks : f[t] \in TrackDraws(t)},
          gen : GenDraws]

\* the draws of a block whose Clock input ends at clockVal: without a clock
\* rising edge no track is processed and no track draw is made
NoTrackDraws == CHOOSE f \in [Tracks -> UNION {TrackDraws(t) : t \in Tracks}] :
                    \A t \in Tracks : f[t] \in TrackDraws(t)
BlockDraws(clockVal) ==
    IF v.clockInput > 0 /\ clockVal > GATE_THRESHOLD_HIGH /\ ~dtc.prevClockHigh
    THEN Draws
    ELSE [trk : {NoTrackDraws}, gen : GenDraws]

\* ----------------------------------------------------------------- actions
\* the engine after a handler call; keep: the MIDI output is appended to the
\* output so far instead of replacing it
Apply(r, keep) ==
    /\ dtc' = r.dtc
    /\ trackStates' = r.trackStates
    /\ heldNotes' = r.heldNotes
    /\ delayedNotes' = r.delayedNotes
    /\ out' = IF keep THEN out \o r.out ELSE r.out
    /\ obs' = r.obs

\* the engine r left by step() becomes the next state.  Bounds: at most maxClock
\* ticks per track since the last start, and a running transport gets its next
\* clock edge (or transport edge) before stepTime exceeds MaxStepTime
Stepped(r, maxClock, keep) ==
    /\ r.obs.stepTimeAtAdd <= MaxStepTime
    /\ \A t \in Tracks : r.trackStates[t].clockCount <= maxClock
    /\ v' = v
    /\ Apply(r, keep)

\* the host calls step() for one audio block
Block(gateVal, clockVal, dt, rnd, maxClock, keep) ==
    Stepped(step(Alg("step"), gateVal, clockVal, dt, rnd), maxClock, keep)

\* the host delivers one MIDI message
Midi(status, channel, byte1, byte2, keep) ==
    /\ v' = v
    /\ Apply(midiMessage(Alg("midiMessage"), status, channel, byte1, byte2), keep)

\* the host writes a global parameter and calls parameterChanged
SetGlobal(p, val, keep) ==
    /\ v[p] # val
    /\ v' = [v EXCEPT ![p] = val]
    /\ Apply(parameterChanged([Alg("parameterChanged") EXCEPT !.v = v'], p, -1), keep)

\* the host writes a track parameter and calls parameterChanged
SetTrack(t, p, val, keep) ==
    /\ v.track[t][p] # val
    /\ v' = [v EXCEPT !.track[t][p] = val]
    /\ Apply(parameterChanged([Alg("parameterChanged") EXCEPT !.v = v'], p, t), keep)

\* the constructed engine with parameters params and track data loaded
Loaded(params, data) ==
    /\ v = params
    /\ dtc = construct.dtc
    /\ trackStates = Table([t \in Tracks |-> [construct.trackStates[t] EXCEPT !.data = data[t]]])
    /\ heldNotes = construct.heldNotes
    /\ delayedNotes = construct.delayedNotes
    /\ out = <<>>
    /\ obs = NewObs("construct", REC_IDLE)

Low == 0
Mid == 10
High == 30

\* ------------------------------------------- recorder specification (SpecRec)
\* Both tracks hold a pattern; the host toggles Record, changes Rec Mode and
\* Rec Track, plays a key, and runs blocks with every run-gate and clock level.
Ev(note, velocity, duration) == [note |-> note, velocity |-> velocity, duration |-> duration]

RecData == Table([t \in Tracks |-> Table([s \in StepIdx |-> IF s = t THEN <<Ev(t, 100, 1)>> ELSE <<>>])])

InitRec == Loaded(DefaultParams, RecData)

RecBlock == \E gateVal \in {Low, High}, clockVal \in {Low, High} :
               \E rnd \in BlockDraws(clockVal) :
                Block(gateVal, clockVal, 1, rnd, RecMaxClock, FALSE)

RecSetRecord == \E val \in 0 .. 1 : SetGlobal("record", val, FALSE)

RecSetMode == \E val \in {REC_MODE_REPLACE, REC_MODE_OVERDUB, REC_MODE_STEP} :
                  SetGlobal("recMode", val, FALSE)

RecSetTrack == \E val \in Tracks : SetGlobal("recTrack", val, FALSE)

NextRec == RecBlock \/ RecSetRecord \/ RecSetMode \/ RecSetTrack

SpecRec == InitRec /\ [][NextRec]_vars

\* ------------------------------------------ playback specification (SpecPlay)
\* Track 0 is enabled, has length 2, is humanized by up to 2 ms and holds a
\* two-step note and a one-step note; track 1 is disabled, has length 3 and
\* runs in reverse.  The host drives the Run gate (which may dip into the
\* hysteresis band) and the Clock, and toggles Panic On Wrap.
PlayMaxClock == 3
PlayParams ==
    [DefaultParams EXCEPT !.track[0].length = 2, !.track[0].humanize = 2,
                          !.track[1].length = 3, !.track[1].direction = 1]
PlayData ==
    Table([t \in Tracks |-> Table([s \in StepIdx |->
        IF t = 0 /\ s = 0 THEN <<Ev(0, 100, 2)>>
        ELSE IF t = 0 /\ s = 1 THEN <<Ev(1, 100, 1)>>
        ELSE <<>>])])
InitPlay == Loaded(PlayParams, PlayData)
PlayBlock ==
    \E gateVal \in {Low, Mid, High}, clockVal \in {Low, High} :
        \E rnd \in BlockDraws(clockVal) :
            Block(gateVal, clockVal, 1, rnd, PlayMaxClock, FALSE)
PlayPanic == \E val \in 0 .. 1 : SetGlobal("panicOnWrap", val, FALSE)
NextPlay == PlayBlock \/ PlayPanic
SpecPlay == InitPlay /\ [][NextPlay]_vars

\* --------------------------------------- shared-channel specification (SpecOff)
\* Both tracks are enabled, have length 2 and send on channel 5 to USB; their
\* first steps hold the same two-step note.  The host drives the Run gate and
\* the Clock, toggles Enabled on either track and toggles Clear Track.
OffMaxClock == 2
OffTrackParams(t) ==
    [DefaultTrackParams(t) EXCEPT !.enabled = 1, !.length = 2, !.channel = 5,
                                  !.destination = 2]
OffParams == [DefaultParams EXCEPT !.track = Table([t \in Tracks |-> OffTrackParams(t)])]
OffData ==
    Table([t \in Tracks |-> Table([s \in StepIdx |->
        IF s = 0 THEN <<Ev(0, 100, 2)>>
        ELSE IF s = 1 /\ t = 1 THEN <<Ev(1, 100, 1)>>
        ELSE <<>>])])
InitOff == Loaded(OffParams, OffData)
OffBlock ==
    \E gateVal \in {Low, High}, clockVal \in {Low, High} :
        \E rnd \in BlockDraws(clockVal) :
            Block(gateVal, clockVal, 1, rnd, OffMaxClock, FALSE)
OffEnable == \E t \in Tracks, val \in 0 .. 1 : SetTrack(t, "enabled", val, FALSE)
OffClearTrack == \E val \in 0 .. 1 : SetGlobal("clearTrack", val, FALSE)
NextOff == OffBlock \/ OffEnable \/ OffClearTrack
SpecOff == InitOff /\ [][NextOff]_vars

\* --------------------------------------------- generate specification (SpecGen)
\* Track 0 holds a note that fills its four steps and a one-step note on step 4.
\* The host chooses the Generate mode, toggles Generate and runs audio blocks
\* with the transport stopped.
GenParams ==
    [DefaultParams EXCEPT !.genNoteRand = 0, !.genVelVar = 0, !.track[0].length = 4]
GenData ==
    Table([t \in Tracks |-> Table([s \in StepIdx |->
        IF t = 0 /\ s = 0 THEN <<Ev(0, 100, 4)>>
        ELSE IF t = 0 /\ s = 3 THEN <<Ev(1, 100, 1)>>
        ELSE <<>>])])
InitGen == Loaded(GenParams, GenData)
GenBlock ==
    \E rnd \in BlockDraws(Low) : Block(Low, Low, 1, rnd, MaxClock, FALSE)
GenToggle == \E val \in 0 .. 1 : SetGlobal("generate", val, FALSE)
GenMode == \E val \in 0 .. 3 : SetGlobal("genMode", val, FALSE)
NextGen == GenBlock \/ GenToggle \/ GenMode
SpecGen == InitGen /\ [][NextGen]_vars

\* ------------------------------------- forward sequencer scenario (SpecForward)
\* One enabled track of length 4, Forward, clock division 1, no modifiers, no
\* humanize, one one-step note per step.  The Run gate rises in the first block
\* and stays high; each block has the Clock input low or high.  The MIDI output
\* of the run is kept.
ForwardParams(channel, destination) ==
    [DefaultParams EXCEPT !.track[0].length = 4, !.track[0].channel = channel,
                          !.track[0].destination = destination]
ForwardData ==
    Table([t \in Tracks |-> Table([s \in StepIdx |->
        IF t = 0 /\ s < 4 THEN <<Ev(s, 100, 1)>> ELSE <<>>])])
InitForward ==
    \E channel \in 1 .. 16, destination \in 0 .. 4 :
        Loaded(ForwardParams(channel, destination), ForwardData)
ForwardBlock ==
    \E clockVal \in {Low, High} :
        \E rnd \in BlockDraws(clockVal) : Block(High, clockVal, 1, rnd, MaxClock, TRUE)
NextForward == ForwardBlock
SpecForward == InitForward /\ [][NextForward]_vars

\* ------------------------------------------ live recording (SpecLive)
\* Both tracks are silent (disabled) and empty; track 0, the record track, has
\* length 4, the division is 2 steps and the snap threshold 50%.  The host plays
\* one key on the input channel, toggles Record, switches between Overdub and
\* Step and drives the Run gate and the Clock.  Bound: at most LiveMaxEvents
\* events are recorded.
LiveMaxClock == 2
LiveMaxEvents == 2
LiveKeys == {1}
LiveParams ==
    [DefaultParams EXCEPT !.recMode = REC_MODE_OVERDUB, !.recDivision = 1, !.recSnap = 50,
                          !.track[0].enabled = 0, !.track[1].length = 2]
LiveData == Table([t \in Tracks |-> EmptySteps])
InitLive == Loaded(LiveParams, LiveData)
StoredEvents ==
    Cardinality({x \in Tracks \X StepIdx \X (1 .. MAX_EVENTS_PER_STEP) :
                    x[3] <= Len(trackStates[x[1]].data[x[2]])})
LiveWithinBound == StoredEvents <= LiveMaxEvents
LiveBlock == \E gateVal \in {Low, High}, clockVal \in {Low, High} :
                \E rnd \in BlockDraws(clockVal) :
                    /\ Block(gateVal, clockVal, 1, rnd, LiveMaxClock, FALSE)
                    /\ LiveWithinBound'
LiveNoteOn == \E key \in LiveKeys : Midi(kMidiNoteOn, 0, key, 100, FALSE) /\ LiveWithinBound'
LiveNoteOff == \E key \in LiveKeys : Midi(kMidiNoteOff, 0, key, 0, FALSE) /\ LiveWithinBound'
LiveSetRecord == \E val \in 0 .. 1 : SetGlobal("record", val, FALSE)
LiveSetMode == \E val \in {REC_MODE_OVERDUB, REC_MODE_STEP} : SetGlobal("recMode", val, FALSE)
NextLive == LiveBlock \/ LiveNoteOn \/ LiveNoteOff \/ LiveSetRecord \/ LiveSetMode
SpecLive == InitLive /\ [][NextLive]_vars

\* ---------------------------------------------- panic on wrap (SpecPanic)
\* Both tracks are enabled and run forward, track 0 with length 2 and track 1
\* with length 3; each holds a four-step note on its first step and track 1 a
\* one-step note on its second.  The host drives the Run gate and the Clock and
\* toggles Panic On Wrap.
PanicMaxClock == 4
PanicParams ==
    [DefaultParams EXCEPT !.panicOnWrap = 1, !.track[0].length = 2,
                          !.track[1].enabled = 1, !.track[1].length = 3]
PanicData ==
    Table([t \in Tracks |-> Table([s \in StepIdx |->
        IF s = 0 THEN <<Ev(t, 100, 4)>>
        ELSE IF t = 1 /\ s = 1 THEN <<Ev(2, 100, 1)>>
        ELSE <<>>])])
InitPanic == Loaded(PanicParams, PanicData)
PanicBlock ==
    \E gateVal \in {Low, High}, clockVal \in {Low, High} :
        \E rnd \in BlockDraws(clockVal) :
            Block(gateVal, clockVal, 1, rnd, PanicMaxClock, FALSE)
PanicToggle == \E val \in 0 .. 1 : SetGlobal("panicOnWrap", val, FALSE)
NextPanic == PanicBlock \/ PanicToggle
SpecPanic == InitPanic /\ [][NextPanic]_vars

\* ------------------------------------------ directions and Length (SpecDir)
\* Both tracks are empty.  The host switches track 0 between Forward, Brownian
\* and Shuffle, changes its Length between 2 and 3, and drives the Run gate and
\* the Clock.
DirMaxClock == 4
DirLengths == {2, 3}
DirModes == {DIR_FORWARD, DIR_BROWNIAN, DIR_SHUFFLE}
DirParams == [DefaultParams EXCEPT !.track[0].length = 3]
InitDir == Loaded(DirParams, Table([t \in Tracks |-> EmptySteps]))
DirBlock ==
    \E gateVal \in {Low, High}, clockVal \in {Low, High} :
        \E rnd \in BlockDraws(clockVal) :
            Block(gateVal, clockVal, 1, rnd, DirMaxClock, FALSE)
DirSetLength == \E val \in DirLengths : SetTrack(0, "length", val, FALSE)
DirSetMode == \E val \in DirModes : SetTrack(0, "direction", val, FALSE)
NextDir == DirBlock \/ DirSetLength \/ DirSetMode
SpecDir == InitDir /\ [][NextDir]_vars

\* ------------------------------------- step recording and Generate (SpecChord)
\* Track 0, the record track, is empty and has length 2; the recorder is set to
\* Step, Generate to Re-pitch around note 2 without note randomness.  With the
\* transport stopped the host toggles Record, plays two keys, picks the Generate
\* mode among Re-pitch, Reorder and Invert and toggles Generate.  Bound: at most
\* ChordMaxEvents events are recorded.
ChordMaxEvents == 3
ChordKeys == {0, 1}
ChordParams ==
    [DefaultParams EXCEPT !.recMode = REC_MODE_STEP, !.genMode = GEN_MODE_REPITCH,
                          !.genBias = 2, !.genNoteRand = 0, !.genVelVar = 0,
                          !.track[0].length = 2]
InitChord == Loaded(ChordParams, Table([t \in Tracks |-> EmptySteps]))
ChordBlock == \E rnd \in BlockDraws(Low) : Block(Low, Low, 1, rnd, MaxClock, FALSE)
ChordNoteOn ==
    \E key \in ChordKeys : /\ Midi(kMidiNoteOn, 0, key, 100, FALSE)
                           /\ StoredEvents' <= ChordMaxEvents
ChordNoteOff == \E key \in ChordKeys : Midi(kMidiNoteOff, 0, key, 0, FALSE)
ChordSetRecord == \E val \in 0 .. 1 : SetGlobal("record", val, FALSE)
ChordGenerate == \E val \in 0 .. 1 : SetGlobal("generate", val, FALSE)
ChordGenMode ==
    \E val \in {GEN_MODE_REORDER, GEN_MODE_REPITCH, GEN_MODE_INVERT} :
        SetGlobal("genMode", val, FALSE)
NextChord ==
    ChordBlock \/ ChordNoteOn \/ ChordNoteOff \/ ChordSetRecord \/ ChordGenerate \/ ChordGenMode
SpecChord == InitChord /\ [][NextChord]_vars

\* ------------------------------------------- recorded note (SpecNote)
\* recordNoteOn and recordNoteOff applied to recording contexts drawn from two
\* grids (length 4 with division 1, length 16 with division 4), every raw step
\* of the loop and three step fractions, at the default snap threshold of 75%:
\* one key is captured on the empty track 0 and then released.  A capture
\* is made where its start step is one of the MaxSteps steps a track keeps.
NoteKey == 1
NoteVelocity == 100
NoteGrids == {<<4, 0>>, <<16, 2>>}
NoteFractions == {<<0, 10>>, <<1, 10>>, <<3, 4>>}
NoteContexts ==
    UNION {[track : {0}, loopLen : {g[1]},
            quantize : {findValidQuantize(g[1], QUANTIZE_VALUES[g[2] + 1])},
            snapThreshold : {DefaultParams.recSnap},
            rawStep : 1 .. g[1], stepFraction : NoteFractions] : g \in NoteGrids}
NoteParams == [DefaultParams EXCEPT !.recMode = REC_MODE_OVERDUB]
InitNote == Loaded(NoteParams, Table([t \in Tracks |-> EmptySteps]))
NoteCapture ==
    \E ctx \in NoteContexts :
        /\ trackStates[0].data = EmptySteps
        /\ snapToDivisionSubclock(ctx.rawStep, ctx.stepFraction, ctx.quantize,
                                  ctx.snapThreshold, ctx.loopLen) <= MaxSteps
        /\ v' = v
        /\ Apply(recordNoteOn(withContext(Alg("recordNoteOn"), ctx), ctx, NoteKey,
                              NoteVelocity), FALSE)
NoteRelease ==
    \E ctx \in NoteContexts :
        /\ ctx.loopLen = heldNotes[NoteKey].loopLen
        /\ v' = v
        /\ Apply(recordNoteOff(withContext(Alg("recordNoteOff"), ctx), ctx, NoteKey), FALSE)
NextNote == NoteCapture \/ NoteRelease
SpecNote == InitNote /\ [][NextNote]_vars

\* ------------------------------------------- base step sequences (SpecSeq)
\* getStepForClock applied to clock_count = 1, 2, ... for one track whose
\* direction is any entry of the strategy table, whose length is any of the
\* MaxSteps lengths and whose stride size is one of SeqStrides; the steps
\* returned since the start are kept (baseSteps).
SeqMaxClock == 5
SeqStrides == {2, 3}
SeqParams(dir, length, strideSize) ==
    [DefaultParams EXCEPT !.track[0].direction = dir, !.track[0].length = length,
                          !.track[0].strideSize = strideSize]
InitSeq ==
    \E dir \in 0 .. NUM_DIRECTIONS - 1, length \in 1 .. MaxSteps, strideSize \in SeqStrides :
        Loaded(SeqParams(dir, length, strideSize), Table([t \in Tracks |-> EmptySteps]))
SeqClock ==
    \E x \in (IF v.track[0].direction = 10 THEN 0 .. v.track[0].length - 1 ELSE {0}) :
        LET clockCount == trackStates[0].clockCount + 1
            baseStep == getStepForClock(clockCount, v.track[0].length, v.track[0].direction,
                                        v.track[0].strideSize, x)
        IN /\ clockCount <= SeqMaxClock
           /\ v' = v
           /\ Apply([Alg("getStepForClock") EXCEPT
                         !.trackStates[0].clockCount = clockCount,
                         !.trackStates[0].step = baseStep,
                         !.obs.baseSteps = obs.baseSteps \o <<baseStep>>], FALSE)
NextSeq == SeqClock
SpecSeq == InitSeq /\ [][NextSeq]_vars

\* ------------------------------------------ Ping-Pong with No-Repeat (SpecPong)
\* Track 0 is empty, has length 3, runs Ping-Pong and has No-Repeat enabled, no
\* other modifier; track 1 is disabled.  The host drives the Run gate and the
\* Clock.
PongMaxClock == 8
PongParams ==
    [DefaultParams EXCEPT !.track[0].length = 3, !.track[0].direction = 3,
                          !.track[0].noRepeat = 1, !.track[1].enabled = 0]
InitPong == Loaded(PongParams, Table([t \in Tracks |-> EmptySteps]))
PongBlock ==
    \E gateVal \in {Low, High}, clockVal \in {Low, High} :
        \E rnd \in BlockDraws(clockVal) :
            Block(gateVal, clockVal, 1, rnd, PongMaxClock, FALSE)
NextPong == PongBlock
SpecPong == InitPong /\ [][NextPong]_vars

\* ---------------------------------------------- Generate New (SpecNew)
\* Both tracks start empty.  Generate runs in New mode with density 100, note
\* randomness 0, no velocity variation, gate randomness 0, ties 100 and the scale
\* off.  The host changes the length of track 0, the record track, the
\* division and the bias, toggles Generate and runs audio blocks with the
\* transport stopped.
NewDivisions == 0 .. 2
NewBiases == {0, 2}
NewParams ==
    [DefaultParams EXCEPT !.genMode = GEN_MODE_NEW, !.genDensity = 100, !.genNoteRand = 0,
                          !.genVelVar = 0, !.genGateRand = 0, !.genTies = 100]
InitNew == Loaded(NewParams, Table([t \in Tracks |-> EmptySteps]))
NewBlock ==
    \E rnd \in BlockDraws(Low) : Block(Low, Low, 1, rnd, MaxClock, FALSE)
NewToggle == \E val \in 0 .. 1 : SetGlobal("generate", val, FALSE)
NewSetLength == \E val \in 1 .. MaxSteps : SetTrack(0, "length", val, FALSE)
NewSetDivision == \E val \in NewDivisions : SetGlobal("recDivision", val, FALSE)
NewSetBias == \E val \in NewBiases : SetGlobal("genBias", val, FALSE)
NextNew == NewBlock \/ NewToggle \/ NewSetLength \/ NewSetDivision \/ NewSetBias
SpecNew == InitNew /\ [][NextNew]_vars

\* ------------------------------------------ record track change (SpecTrack)
\* Both tracks are silent (disabled) and empty and have length 2; no Clock
\* input is assigned, so the transport runs without ticks.  The host plays one
\* key on the input channel, toggles Record, moves Rec Track between the two
\* tracks and drives the Run gate; Rec Mode is Overdub or Step for the whole
\* run.  Bound: at most TrackMaxEvents events are recorded.
TrackMaxEvents == 1
TrackParams(recMode) ==
    [DefaultParams EXCEPT !.recMode = recMode, !.recSnap = 50, !.clockInput = 0,
                          !.track[0].enabled = 0, !.track[0].length = 2,
                          !.track[1].length = 2]
InitTrack ==
    \E recMode \in {REC_MODE_OVERDUB, REC_MODE_STEP} :
        Loaded(TrackParams(recMode), Table([t \in Tracks |-> EmptySteps]))
TrackWithinBound == StoredEvents <= TrackMaxEvents
TrackBlock == \E gateVal \in {Low, High} :
                 \E rnd \in BlockDraws(Low) :
                     /\ Block(gateVal, Low, 1, rnd, MaxClock, FALSE)
                     /\ TrackWithinBound'
TrackNoteOn == Midi(kMidiNoteOn, 0, NoteKey, NoteVelocity, FALSE) /\ TrackWithinBound'
TrackNoteOff == Midi(kMidiNoteOff, 0, NoteKey, 0, FALSE) /\ TrackWithinBound'
TrackSetRecord == \E val \in 0 .. 1 : SetGlobal("record", val, FALSE)
TrackSetRecTrack == \E val \in Tracks : SetGlobal("recTrack", val, FALSE)
NextTrack == TrackBlock \/ TrackNoteOn \/ TrackNoteOff \/ TrackSetRecord \/ TrackSetRecTrack
SpecTrack == InitTrack /\ [][NextTrack]_vars

\* ------------------------------------------ latched parameters (SpecEdge)
\* Both tracks are silent (disabled), have length 2 and hold a one-step note on
\* step 1.  Generate runs in New mode with
\* density 100 and no randomness.  The host toggles Clear Track, Clear All,
\* Generate and Record and drives the Run gate and the Clock.
EdgeMaxClock == 1
EdgeParams ==
    [DefaultParams EXCEPT !.genMode = GEN_MODE_NEW, !.genDensity = 100, !.genNoteRand = 0,
                          !.genVelVar = 0, !.genGateRand = 0, !.genTies = 0,
                          !.track[0].enabled = 0,
                          !.track[0].length = 2, !.track[1].length = 2]
EdgeData ==
    Table([t \in Tracks |-> Table([s \in StepIdx |->
        IF s = 0 THEN <<Ev(1, 100, 1)>> ELSE <<>>])])
InitEdge == Loaded(EdgeParams, EdgeData)
EdgeBlock ==
    \E gateVal \in {Low, High}, clockVal \in {Low, High} :
        \E rnd \in BlockDraws(clockVal) :
            Block(gateVal, clockVal, 1, rnd, EdgeMaxClock, FALSE)
EdgeClearTrack == \E val \in 0 .. 1 : SetGlobal("clearTrack", val, FALSE)
EdgeClearAll == \E val \in 0 .. 1 : SetGlobal("clearAll", val, FALSE)
EdgeGenerate == \E val \in 0 .. 1 : SetGlobal("generate", val, FALSE)
EdgeRecord == \E val \in 0 .. 1 : SetGlobal("record", val, FALSE)
NextEdge == EdgeBlock \/ EdgeClearTrack \/ EdgeClearAll \/ EdgeGenerate \/ EdgeRecord
SpecEdge == InitEdge /\ [][NextEdge]_vars

\* ------------------------------------------ one-step loop (SpecOne)
\* Track 0 is empty and runs in any of the twelve direction modes, with Panic
\* On Wrap on; track 1 is disabled and has length 2.  The host switches the
\* Length of track 0 between 1 and 2 and drives the Run gate and the Clock.
OneMaxClock == 3
OneLengths == {1, 2}
OneParams(dir) ==
    [DefaultParams EXCEPT !.panicOnWrap = 1, !.track[0].length = 1,
                          !.track[0].direction = dir, !.track[1].length = 2]
InitOne ==
    \E dir \in 0 .. NUM_DIRECTIONS - 1 :
        Loaded(OneParams(dir), Table([t \in Tracks |-> EmptySteps]))
OneBlock ==
    \E gateVal \in {Low, High}, clockVal \in {Low, High} :
        \E rnd \in BlockDraws(clockVal) :
            Block(gateVal, clockVal, 1, rnd, OneMaxClock, FALSE)
OneSetLength == \E val \in OneLengths : SetTrack(0, "length", val, FALSE)
NextOne == OneBlock \/ OneSetLength
SpecOne == InitOne /\ [][NextOne]_vars

\* ------------------------------------------ full snap threshold (SpecSnap)
\* Both tracks are silent (disabled) and empty; track 0, the record track, has
\* length 2; Rec Mode is Overdub and Rec Snap 100%.  The host plays one key on
\* the input channel, toggles Record and drives the Run gate and the Clock.
\* Bound: at most SnapMaxEvents events are recorded.
SnapMaxClock == 2
SnapMaxEvents == 1
SnapParams ==
    [DefaultParams EXCEPT !.recMode = REC_MODE_OVERDUB, !.recSnap = 100,
                          !.track[0].enabled = 0, !.track[0].length = 2]
InitSnap == Loaded(SnapParams, Table([t \in Tracks |-> EmptySteps]))
SnapWithinBound == StoredEvents <= SnapMaxEvents
SnapBlock == \E gateVal \in {Low, High}, clockVal \in {Low, High} :
                \E rnd \in BlockDraws(clockVal) :
                    /\ Block(gateVal, clockVal, 1, rnd, SnapMaxClock, FALSE)
                    /\ SnapWithinBound'
SnapNoteOn == Midi(kMidiNoteOn, 0, NoteKey, NoteVelocity, FALSE) /\ SnapWithinBound'
SnapNoteOff == Midi(kMidiNoteOff, 0, NoteKey, 0, FALSE) /\ SnapWithinBound'
SnapSetRecord == \E val \in 0 .. 1 : SetGlobal("record", val, FALSE)
NextSnap == SnapBlock \/ SnapNoteOn \/ SnapNoteOff \/ SnapSetRecord
SpecSnap == InitSnap /\ [][NextSnap]_vars

\* ------------------------------------------ scale quantizer (SpecScale)
\* quantizeToScale applied to every note, every root and every scale type
\* (Off, the nine heptatonic scales, both pentatonics), and again to its own
\* result; the note is held in Gen Bias, the results are kept (quantized).
ScaleRoots == 0 .. 11
ScaleTypes == 0 .. Len(scaleSizes)
ScaleParams(note, root, scaleType) ==
    [DefaultParams EXCEPT !.genBias = note, !.scaleRoot = root, !.scaleType = scaleType]
InitScale ==
    \E note \in Notes, root \in ScaleRoots, scaleType \in ScaleTypes :
        Loaded(ScaleParams(note, root, scaleType), Table([t \in Tracks |-> EmptySteps]))
ScaleQuantize ==
    LET done == obs.quantized
        note == IF done = <<>> THEN v.genBias ELSE done[Len(done)]
    IN /\ Len(done) < 2
       /\ v' = v
       /\ Apply([Alg("quantizeToScale") EXCEPT
                     !.obs.quantized = Append(done, quantizeToScale(note, v.scaleRoot,
                                                                   v.scaleType))], FALSE)
NextScale == ScaleQuantize
SpecScale == InitScale /\ [][NextScale]_vars

\* ------------------------------------------ delayed-note pool (SpecPool)
\* One enabled track of two steps with Humanize 1; step 1 holds one event per note,
\* twice the pool size, step 2 is empty.  Every event of a tick draws its
\* delay (0 or 1 ms), blocks last 1 ms.
PoolMaxClock == 3
PoolParams ==
    [DefaultParams EXCEPT !.track[0].length = 2, !.track[0].humanize = 1]
PoolData ==
    Table([t \in Tracks |-> Table([s \in StepIdx |->
        IF t = 0 /\ s = 0 THEN List([n \in 1 .. MaxNote + 1 |-> Ev(n - 1, 100, 1)])
        ELSE <<>>])])
InitPool == Loaded(PoolParams, PoolData)
PoolBlock ==
    \E gateVal \in {Low, High}, clockVal \in {Low, High} :
        \E rnd \in BlockDraws(clockVal) :
            Block(gateVal, clockVal, 1, rnd, PoolMaxClock, FALSE)
NextPool == PoolBlock
SpecPool == InitPool /\ [][NextPool]_vars

\* ------------------------------------------ trig conditions (SpecCond)
\* One enabled track of two steps, a note on each step.  The track condition
\* and the two step conditions are Always, First or !First, the target steps of
\* A and B are 0 (none), 1 or 2; all probabilities are 100.
CondMaxClock == 4
CondTargets == 0 .. 2
CondChoices == {0, 71, 72}
CondParams(stepCond, condStepA, condA, condStepB, condB) ==
    [DefaultParams EXCEPT !.track[0].length = 2,
                          !.track[0].stepCond = stepCond,
                          !.track[0].condStepA = condStepA, !.track[0].condA = condA,
                          !.track[0].condStepB = condStepB, !.track[0].condB = condB]
CondData ==
    Table([t \in Tracks |-> Table([s \in StepIdx |->
        IF t = 0 /\ s < 2 THEN <<Ev(s, 100, 1)>> ELSE <<>>])])
InitCond ==
    \E stepCond \in {0, 72}, condStepA \in CondTargets, condA \in CondChoices,
       condStepB \in CondTargets, condB \in CondChoices :
        Loaded(CondParams(stepCond, condStepA, condA, condStepB, condB), CondData)
CondBlock ==
    \E gateVal \in {Low, High}, clockVal \in {Low, High} :
        \E rnd \in BlockDraws(clockVal) :
            Block(gateVal, clockVal, 1, rnd, CondMaxClock, FALSE)
NextCond == CondBlock
SpecCond == InitCond /\ [][NextCond]_vars

\* ------------------------------------------ step-record cursor (SpecCursor)
\* Rec Mode Step without a clock input; track 0 has MaxSteps steps, track 1 has
\* two.  One key is pressed and released, Record, Rec Track, the track lengths
\* and the division change between the blocks in every order.
CursorMaxEvents == 1
CursorLengths == {2, MaxSteps}
CursorDivisions == 0 .. 1
CursorParams ==
    [DefaultParams EXCEPT !.recMode = REC_MODE_STEP, !.clockInput = 0,
                          !.track[0].enabled = 0, !.track[1].length = 2]
InitCursor == Loaded(CursorParams, Table([t \in Tracks |-> EmptySteps]))
CursorWithinBound == StoredEvents <= CursorMaxEvents
CursorBlock == \E rnd \in BlockDraws(Low) : Block(Low, Low, 1, rnd, MaxClock, FALSE)
CursorNoteOn == Midi(kMidiNoteOn, 0, NoteKey, NoteVelocity, FALSE) /\ CursorWithinBound'
CursorNoteOff == Midi(kMidiNoteOff, 0, NoteKey, 0, FALSE)
CursorSetRecord == \E val \in 0 .. 1 : SetGlobal("record", val, FALSE)
CursorSetRecTrack == \E val \in Tracks : SetGlobal("recTrack", val, FALSE)
CursorSetLength ==
    \E val \in CursorLengths : SetTrack(0, "length", val, FALSE)
CursorSetDivision == \E val \in CursorDivisions : SetGlobal("recDivision", val, FALSE)
NextCursor ==
    \/ CursorBlock \/ CursorNoteOn \/ CursorNoteOff \/ CursorSetRecord
    \/ CursorSetRecTrack \/ CursorSetLength \/ CursorSetDivision
SpecCursor == InitCursor /\ [][NextCursor]_vars

\* ------------------------------------------ step recording (SpecStep)
\* Rec Mode Step on a track of MaxSteps steps, without a clock input.  The scale
\* is Off or Ionian on root 0 and the division is 1 or 2 steps; two keys are
\* pressed and released in every order, Record is switched on and off.
StepMaxEvents == 3
StepKeys == {2, 3}
StepScales == 0 .. 1
StepDivisions == 0 .. 1
StepParams(scaleType, recDivision) ==
    [DefaultParams EXCEPT !.recMode = REC_MODE_STEP, !.clockInput = 0,
                          !.scaleType = scaleType, !.recDivision = recDivision]
InitStep ==
    \E scaleType \in StepScales, recDivision \in StepDivisions :
        Loaded(StepParams(scaleType, recDivision), Table([t \in Tracks |-> EmptySteps]))
StepBlock == \E rnd \in BlockDraws(Low) : Block(Low, Low, 1, rnd, MaxClock, FALSE)
StepNoteOn ==
    \E key \in StepKeys : /\ Midi(kMidiNoteOn, 0, key, NoteVelocity, FALSE)
                          /\ StoredEvents' <= StepMaxEvents
StepNoteOff == \E key \in StepKeys : Midi(kMidiNoteOff, 0, key, 0, FALSE)
StepSetRecord == \E val \in 0 .. 1 : SetGlobal("record", val, FALSE)
NextStep == StepBlock \/ StepNoteOn \/ StepNoteOff \/ StepSetRecord
SpecStep == InitStep /\ [][NextStep]_vars

\* ------------------------------------------ loop wraps (SpecWrap)
\* One enabled track of two or three steps in one of the directions Forward,
\* Reverse, Pendulum, Ping-Pong, Odd/Even, Hopscotch and Converge, without
\* modifiers; Panic On Wrap is on, so that every detected wrap is observed.
WrapMaxClock == 13
WrapLengths == {2, 3}
WrapModes == {0, 1, 2, 3, 5, 6, 7}
WrapParams(dir, length) ==
    [DefaultParams EXCEPT !.panicOnWrap = 1, !.track[0].length = length,
                          !.track[0].direction = dir]
InitWrap ==
    \E dir \in WrapModes, length \in WrapLengths :
        Loaded(WrapParams(dir, length), Table([t \in Tracks |-> EmptySteps]))
WrapBlock ==
    \E gateVal \in {Low, High}, clockVal \in {Low, High} :
        \E rnd \in BlockDraws(clockVal) :
            Block(gateVal, clockVal, 1, rnd, WrapMaxClock, FALSE)
NextWrap == WrapBlock
SpecWrap == InitWrap /\ [][NextWrap]_vars

\* ------------------------------------------ quantize cache (SpecCache)
\* Rec Mode Step without a clock input.  Note-offs of one key reach the step
\* recorder (which looks the quantize up), Record, Rec Track, the length of
\* either track and the division change between the blocks in every order.
CacheLengths == {3, MaxSteps}
CacheDivisions == 0 .. 2
CacheParams == [DefaultParams EXCEPT !.recMode = REC_MODE_STEP, !.clockInput = 0,
                                     !.track[0].enabled = 0]
InitCache == Loaded(CacheParams, Table([t \in Tracks |-> EmptySteps]))
CacheBlock == \E rnd \in BlockDraws(Low) : Block(Low, Low, 1, rnd, MaxClock, FALSE)
CacheNoteOff == Midi(kMidiNoteOff, 0, NoteKey, 0, FALSE)
CacheSetRecord == \E val \in 0 .. 1 : SetGlobal("record", val, FALSE)
CacheSetRecTrack == \E val \in Tracks : SetGlobal("recTrack", val, FALSE)
CacheSetLength ==
    \E t \in Tracks, val \in CacheLengths : SetTrack(t, "length", val, FALSE)
CacheSetDivision == \E val \in CacheDivisions : SetGlobal("recDivision", val, FALSE)
NextCache ==
    \/ CacheBlock \/ CacheNoteOff \/ CacheSetRecord
    \/ CacheSetRecTrack \/ CacheSetLength \/ CacheSetDivision
SpecCache == InitCache /\ [][NextCache]_vars

\* ------------------------------------------ input thresholds (SpecGate)
\* The Run gate and the Clock take a value below the low threshold, inside the
\* hysteresis band or above the high threshold in every block; Record and the
\* Rec Mode change between the blocks.
GateMaxClock == 2
GateLevels == {Low, Mid, High}
InitGate == Loaded(DefaultParams, Table([t \in Tracks |-> EmptySteps]))
GateBlock ==
    \E gateVal \in GateLevels, clockVal \in GateLevels :
        \E rnd \in BlockDraws(clockVal) :
            Block(gateVal, clockVal, 1, rnd, GateMaxClock, FALSE)
GateSetRecord == \E val \in 0 .. 1 : SetGlobal("record", val, FALSE)
GateSetMode == \E val \in {REC_MODE_REPLACE, REC_MODE_STEP} : SetGlobal("recMode", val, FALSE)
NextGate == GateBlock \/ GateSetRecord \/ GateSetMode
SpecGate == InitGate /\ [][NextGate]_vars

\* ------------------------------------------ note durations (SpecDur)
\* One enabled Forward track of four steps: note 0 on step 1 and note 1 on step
\* 3, each one to three steps long.  The Run gate stays high, the Clock ticks.
DurMaxClock == 9
DurLength == 4
DurDurations == 1 .. 3
DurParams == [DefaultParams EXCEPT !.track[0].length = DurLength]
DurData(d0, d1) ==
    Table([t \in Tracks |-> Table([s \in StepIdx |->
        IF t = 0 /\ s = 0 THEN <<Ev(0, 100, d0)>>
        ELSE IF t = 0 /\ s = 2 THEN <<Ev(1, 100, d1)>>
        ELSE <<>>])])
InitDur == \E d0 \in DurDurations, d1 \in DurDurations : Loaded(DurParams, DurData(d0, d1))
DurBlock ==
    \E clockVal \in {Low, High} :
        \E rnd \in BlockDraws(clockVal) : Block(High, clockVal, 1, rnd, DurMaxClock, FALSE)
NextDur == DurBlock
SpecDur == InitDur /\ [][NextDur]_vars

\* ------------------------------------------ No-Repeat and Step Mask (SpecMask)
\* One enabled track with No-Repeat, Forward or Reverse, two or three steps and
\* one of the fixed step masks (All, Odds, Evens, First Half, Second Half,
\* Sparse, Dense); no continuous modifier.
MaskMaxClock == 4
MaskLengths == {2, 3}
MaskPatterns == 0 .. 6
MaskParams(dir, length, stepMask) ==
    [DefaultParams EXCEPT !.track[0].length = length, !.track[0].direction = dir,
                          !.track[0].noRepeat = 1, !.track[0].stepMask = stepMask]
InitMask ==
    \E dir \in 0 .. 1, length \in MaskLengths, stepMask \in MaskPatterns :
        Loaded(MaskParams(dir, length, stepMask), Table([t \in Tracks |-> EmptySteps]))
MaskBlock ==
    \E gateVal \in {Low, High}, clockVal \in {Low, High} :
        \E rnd \in BlockDraws(clockVal) :
            Block(gateVal, clockVal, 1, rnd, MaskMaxClock, FALSE)
NextMask == MaskBlock
SpecMask == InitMask /\ [][NextMask]_vars

\* ------------------------------------- Length reduced while running (SpecShrink)
\* Track 0 holds one event on each of its first three steps and starts with
\* Length 3, in Forward or Shuffle, with or without Stability.  The host changes
\* its Length between 2 and 3 and drives the Run gate and the Clock.
ShrinkMaxClock == 5
ShrinkLengths == {2, 3}
ShrinkModes == {DIR_FORWARD, DIR_SHUFFLE}
ShrinkStabilities == {0, 50}
ShrinkParams(dir, stability) ==
    [DefaultParams EXCEPT !.track[0].length = 3, !.track[0].direction = dir,
                          !.track[0].stability = stability]
ShrinkData ==
    Table([t \in Tracks |->
        Table([s \in StepIdx |-> IF t = 0 /\ s < 3 THEN <<Ev(s, 100, 1)>> ELSE <<>>])])
InitShrink ==
    \E dir \in ShrinkModes, stability \in ShrinkStabilities :
        Loaded(ShrinkParams(dir, stability), ShrinkData)
ShrinkBlock ==
    \E gateVal \in {Low, High}, clockVal \in {Low, High} :
        \E rnd \in BlockDraws(clockVal) :
            Block(gateVal, clockVal, 1, rnd, ShrinkMaxClock, FALSE)
ShrinkSetLength == \E val \in ShrinkLengths : SetTrack(0, "length", val, FALSE)
NextShrink == ShrinkBlock \/ ShrinkSetLength
SpecShrink == InitShrink /\ [][NextShrink]_vars

\* ------------------------------------------- notes left sounding (SpecStuck)
\* Track 0 sends on channel 5 to USB, has length 2 and holds a two-step note on
\* step 1; track 1 is empty.  The Run gate rises in the first block and stays
\* high, the Clock keeps ticking, and the host toggles Clear Track and the
\* track's Enabled parameter.  The output of all handlers is kept in out.
StuckMaxClock == 4
StuckParams ==
    [DefaultParams EXCEPT !.track[0].length = 2, !.track[0].channel = 5,
                          !.track[0].destination = 2]
StuckData ==
    Table([t \in Tracks |->
        Table([s \in StepIdx |-> IF t = 0 /\ s = 0 THEN <<Ev(0, 100, 2)>> ELSE <<>>])])
InitStuck == Loaded(StuckParams, StuckData)
StuckBlock ==
    \E clockVal \in {Low, High} :
        \E rnd \in BlockDraws(clockVal) :
            Block(High, clockVal, 1, rnd, StuckMaxClock, TRUE)
StuckClearTrack == \E val \in 0 .. 1 : SetGlobal("clearTrack", val, TRUE)
StuckEnable == \E val \in 0 .. 1 : SetTrack(0, "enabled", val, TRUE)
NextStuck == StuckBlock \/ StuckClearTrack \/ StuckEnable
SpecStuck == InitStuck /\ [][NextStuck]_vars

\* --------------------------------------- the 16-bit tick counter (SpecWide)
\* Both tracks are empty, track 0 runs Forward or Reverse.  The Run gate rises
\* in the first block and stays high and the Clock rises in every second block
\* of 1 ms.  The run is followed for its first WideMaxClock ticks and again
\* from tick WideStart, shortly before clock_count wraps, until WideMaxClock
\* ticks after the wrap.
WideMaxClock == 6
WideStart == 65533
WideLengths == {2, 3, 4}
WideModes == 0 .. 1
WideParams(dir, length) ==
    [DefaultParams EXCEPT !.track[0].length = length, !.track[0].direction = dir]

\* the engine after k >= 2 ticks of such a run and the block that follows the
\* k-th tick: every track has counted k ticks, stands on the k-th step of its
\* direction and has wrapped each time it came round to its first step
WideTrack(params, t, k) ==
    LET tp == params.track[t]
        s == getStepForClock(k, tp.length, tp.direction, tp.strideSize, 0)
    IN [construct.trackStates[t] EXCEPT
           !.clockCount = k, !.step = s, !.lastStep = s,
           !.loopCount = (k - 1) \div tp.length,
           !.lastEnabled = tp.enabled]
WideTracks(params, k) == Table([t \in Tracks |-> WideTrack(params, t, k)])
WideDtc ==
    [construct.dtc EXCEPT !.transportState = TRANSPORT_RUNNING, !.prevGateHigh = TRUE,
                          !.stepTime = 1, !.stepDuration = 2]
WideObs(params, k) ==
    [NewObs("step", REC_IDLE) EXCEPT
        !.drains = 1, !.stepTimeAtAdd = 1,
        !.preClock = [taken |-> TRUE, recordState |-> REC_IDLE,
                      trackStates |-> WideTracks(params, k), outLen |-> 0],
        !.cv = [gate |-> High, clock |-> Low],
        !.lowSeen = [gate |-> FALSE, clock |-> TRUE]]
WideAt(params, k) ==
    /\ v = params
    /\ dtc = WideDtc
    /\ trackStates = WideTracks(params, k)
    /\ heldNotes = construct.heldNotes
    /\ delayedNotes = construct.delayedNotes
    /\ out = <<>>
    /\ obs = WideObs(params, k)
InitWide ==
    \E dir \in WideModes, length \in WideLengths :
        \/ Loaded(WideParams(dir, length), Table([t \in Tracks |-> EmptySteps]))
        \/ WideAt(WideParams(dir, length), WideStart)
WideBlock ==
    \E clockVal \in {Low, High} :
        \E rnd \in BlockDraws(clockVal) :
            /\ (clockVal = High) = ~dtc.prevClockHigh
            /\ \A t \in Tracks : \/ trackStates[t].clockCount >= WideStart
                                  \/ trackStates[t].clockCount < WideMaxClock
                                  \/ clockVal = Low
            /\ Block(High, clockVal, 1, rnd, 65535, FALSE)
NextWide == WideBlock
SpecWide == InitWide /\ [][NextWide]_vars

\* ------------------------------------------------- recorder state machine
RecordRising(e) == e.record = 1 /\ e.lastRecord # 1
RecordFalling(e) == e.record = 0 /\ e.lastRecord # 0
StepMode(e) == e.recMode = REC_MODE_STEP

\* the eleven transitions of the recorder table
TableTransition(e) ==
    \/ e.from = REC_IDLE /\ e.to = REC_STEP /\ e.cause = "recorder"
          /\ RecordRising(e) /\ StepMode(e)
    \/ e.from = REC_IDLE /\ e.to = REC_LIVE /\ e.cause = "recorder"
          /\ RecordRising(e) /\ ~StepMode(e) /\ e.running
    \/ e.from = REC_IDLE /\ e.to = REC_LIVE_PENDING /\ e.cause = "recorder"
          /\ RecordRising(e) /\ ~StepMode(e) /\ ~e.running
    \/ e.from = REC_LIVE /\ e.to = REC_IDLE /\ e.cause = "recorder" /\ RecordFalling(e)
    \/ e.from = REC_LIVE /\ e.to = REC_STEP /\ e.cause = "recorder" /\ StepMode(e)
    \/ e.from = REC_STEP /\ e.to = REC_IDLE /\ e.cause = "recorder" /\ RecordFalling(e)
    \/ e.from = REC_STEP /\ e.to = REC_LIVE /\ e.cause = "recorder"
          /\ ~StepMode(e) /\ e.running
    \/ e.from = REC_STEP /\ e.to = REC_LIVE_PENDING /\ e.cause = "recorder"
          /\ ~StepMode(e) /\ ~e.running
    \/ e.from = REC_LIVE_PENDING /\ e.to = REC_IDLE /\ e.cause = "recorder"
          /\ RecordFalling(e)
    \/ e.from = REC_LIVE_PENDING /\ e.to = REC_LIVE /\ e.cause = "start" /\ e.running
    \/ e.from = REC_LIVE_PENDING /\ e.to = REC_STEP /\ e.cause = "recorder" /\ StepMode(e)

\* handleTransportStop: a live recording ends when the transport stops
StopTransition(e) == e.from = REC_LIVE /\ e.to = REC_IDLE /\ e.cause = "stop"

\* the logged transitions lead from recorder state `from` to recorder state `to`
LogLeads(from, log, to) ==
    IF Len(log) = 0 THEN from = to
    ELSE /\ log[1].from = from
         /\ log[Len(log)].to = to
         /\ \A i \in 1 .. Len(log) - 1 : log[i].to = log[i + 1].from

\* C1 (as the code has it): every change of the recorder state is made by an
\* audio block, and is a chain of transitions each of which is one of the
\* eleven transitions of the recorder table or LIVE -> IDLE on transport stop;
\* MIDI input and parameter-change handlers never change the recorder state.
C1_RecorderTableWithStop ==
    [][/\ dtc'.recordState # dtc.recordState => obs'.handler = "step"
       /\ LogLeads(dtc.recordState, obs'.log, dtc'.recordState)
       /\ \A i \in 1 .. Len(obs'.log) :
             /\ obs'.log[i].from # obs'.log[i].to
             /\ TableTransition(obs'.log[i]) \/ StopTransition(obs'.log[i])]_vars

\* C1 as stated: every change of the recorder state is one of the eleven
\* transitions of the recorder table.
C1_RecorderTableOnly ==
    [][/\ dtc'.recordState # dtc.recordState => obs'.handler = "step"
       /\ LogLeads(dtc.recordState, obs'.log, dtc'.recordState)
       /\ \A i \in 1 .. Len(obs'.log) : TableTransition(obs'.log[i])]_vars

\* a block in which the transport stopped under a live recording
C1_StopEndsLive ==
    /\ obs.handler = "step"
    /\ obs.stops = 1
    /\ obs.recBefore = REC_LIVE
    /\ dtc.recordState = REC_IDLE
    /\ v.record = 1

NoteOnOf(m) == m.b0 - (m.b0 % 16) = kMidiNoteOn
NoteOffOf(m) == m.b0 - (m.b0 % 16) = kMidiNoteOff

\* C8: when Record rises in a live mode in an audio block that has a clock
\* rising edge, the recorder has left IDLE when the clock section is reached
\* (LIVE when the transport runs, LIVE_PENDING when it is stopped); in Replace
\* mode with the transport running the record track is then already empty, and
\* the tick sends no Note On for the record track.
C8_RecorderBeforeClock ==
    [][(/\ obs'.handler = "step"
        /\ v.record = 1 /\ dtc.lastRecord # 1
        /\ v.recMode # REC_MODE_STEP
        /\ obs'.clockRising)
       => LET running == transportIsRunning(dtc'.transportState)
              recTrack == clampParam(v.recTrack, 0, NumTracks - 1)
          IN /\ obs'.preClock.taken
             /\ obs'.preClock.recordState = IF running THEN REC_LIVE ELSE REC_LIVE_PENDING
             /\ (running /\ v.recMode = REC_MODE_REPLACE)
                  => /\ obs'.preClock.trackStates[recTrack].data = EmptySteps
                     /\ \A i \in 1 .. Len(out') :
                           ~(out'[i].phase = "clock" /\ out'[i].track = recTrack
                             /\ NoteOnOf(out'[i]))]_vars

\* Record rose in Replace mode in a block whose tick put the record track on a
\* step that held an event before the block
C8_RecordWithTick ==
    LET recTrack == clampParam(v.recTrack, 0, NumTracks - 1)
    IN /\ obs.handler = "step" /\ obs.recordRose /\ obs.clockRising /\ obs.ticks = 1
       /\ v.recMode = REC_MODE_REPLACE
       /\ trackStates[recTrack].step >= 1
       /\ \E i \in 1 .. Len(obs.log) :
             /\ obs.log[i].to = REC_LIVE /\ obs.log[i].from = REC_IDLE
             /\ obs.log[i].dataBefore[recTrack][trackStates[recTrack].step - 1] # <<>>

\* C10: whenever the recorder enters LIVE with Rec Mode = Replace the record
\* track's step events are all cleared (and no other track's), with Rec Mode =
\* Overdub no track's step events change; and a block that processes a run-gate
\* rising edge with the recorder in LIVE_PENDING promotes it to LIVE before any
\* clock tick of that block.
C10_EntryToLive ==
    /\ \A i \in 1 .. Len(obs.log) :
          LET e == obs.log[i]
          IN e.to = REC_LIVE =>
               /\ e.recMode = REC_MODE_REPLACE =>
                    /\ e.dataAfter[e.recTrack] = EmptySteps
                    /\ \A t \in Tracks \ {e.recTrack} : e.dataAfter[t] = e.dataBefore[t]
               /\ e.recMode = REC_MODE_OVERDUB => e.dataAfter = e.dataBefore
    /\ (obs.handler = "step" /\ obs.starts = 1 /\ obs.recBefore = REC_LIVE_PENDING)
         => /\ Len(obs.log) >= 1
            /\ obs.log[1].from = REC_LIVE_PENDING /\ obs.log[1].to = REC_LIVE
            /\ obs.log[1].cause = "start" /\ obs.log[1].ticks = 0

\* a transport start with a clock edge promoted a pending Replace recording
\* whose record track held events
C10_PromotionClears ==
    /\ obs.handler = "step" /\ obs.starts = 1 /\ obs.ticks = 1
    /\ obs.recBefore = REC_LIVE_PENDING
    /\ Len(obs.log) >= 1
    /\ obs.log[1].recMode = REC_MODE_REPLACE
    /\ obs.log[1].dataBefore[obs.log[1].recTrack] # EmptySteps
    /\ dtc.recordState = REC_LIVE

\* ---------------------------------------------------------------- playback
\* C2: at the end of every audio block, for every track and note n,
\* playing[n].active holds iff activeNotes[n] > 0 iff playing[n].remaining > 0.
C2_PlayingSlotsAgree ==
    obs.handler = "step" =>
        \A t \in Tracks, n \in Notes :
            /\ trackStates[t].playing[n].active <=> trackStates[t].activeNotes[n] > 0
            /\ trackStates[t].playing[n].active <=> trackStates[t].playing[n].remaining > 0

\* C5: at the end of an audio block that handled a transport stop the
\* transport is STOPPED, no playing slot and no delayed slot is active, and
\* every track's UI velocity, step, clockCount, divCounter and loopCount are 0.
C5_StopClearsEverything ==
    (obs.handler = "step" /\ obs.stops = 1) =>
        /\ dtc.transportState = TRANSPORT_STOPPED
        /\ \A i \in DelaySlots : ~delayedNotes[i].active
        /\ \A t \in Tracks :
              /\ \A n \in Notes : ~trackStates[t].playing[n].active
              /\ trackStates[t].activeVel = 0
              /\ trackStates[t].step = 0
              /\ trackStates[t].clockCount = 0
              /\ trackStates[t].divCounter = 0
              /\ trackStates[t].loopCount = 0

\* a stop that cancelled a note waiting in the delayed pool (its delay was
\* still the full 2 ms) after the track had advanced
C5_StopWithPendingNote ==
    /\ obs.handler = "step" /\ obs.stops = 1
    /\ \E i \in DelaySlots : delayedNotes[i].delay = 2 /\ delayedNotes[i].track = 0
    /\ \E n \in Notes : trackStates[0].playing[n].remaining > 0
    /\ \E i \in 1 .. Len(out) : out[i].b0 = withChannel(kMidiCC, 2) /\ out[i].b1 = AllNotesOffCC

\* C6: an audio block with a run-gate rising edge and a clock rising edge ends
\* with the transport RUNNING after exactly one tick: every track with ClockDiv
\* 1 has clockCount 1 and is on the first step of its direction (step 1 for
\* Forward, the last step for Reverse).
C6_StartThenFirstTick ==
    (obs.handler = "step" /\ obs.starts = 1 /\ obs.clockRising) =>
        /\ dtc.transportState = TRANSPORT_RUNNING
        /\ obs.ticks = 1
        /\ \A t \in Tracks :
              v.track[t].clockDiv = 1 =>
                  /\ trackStates[t].clockCount = 1
                  /\ v.track[t].direction = DIR_FORWARD => trackStates[t].step = 1
                  /\ v.track[t].direction = 1 =>
                        trackStates[t].step = clampParam(v.track[t].length, 1, MaxSteps)

\* the run gate rose again, together with the clock, while the transport was
\* running and the tracks had advanced: the first note is sent again
C6_RestartWithClock ==
    /\ obs.handler = "step" /\ obs.starts = 1 /\ obs.clockRising
    /\ trackStates[0].loopCount = 0 /\ trackStates[0].lastEnabled = 1
    /\ trackStates[0].playing[1].remaining > 0
    /\ trackStates[0].step = 1

\* C7: the delayed pool is drained exactly once per audio block; a delayed
\* note that falls due is sent as a Note On, and its playing slot is active,
\* before the clock section is reached, hence before every message of the tick.
C7_DelayedBeforeClock ==
    obs.handler = "step" =>
        /\ obs.drains = 1
        /\ \A i \in 1 .. Len(out) :
              /\ out[i].phase = "clock" => i > obs.preClock.outLen
              /\ out[i].phase = "delayed" =>
                    /\ NoteOnOf(out[i])
                    /\ i <= obs.preClock.outLen
                    /\ obs.preClock.trackStates[out[i].track].playing[out[i].b1].active
                    /\ \A j \in 1 .. Len(out) : out[j].phase = "clock" => i < j

\* a block in which a delayed note fell due and the tick sent messages
C7_DueNoteAndTick ==
    /\ obs.handler = "step" /\ obs.ticks = 1
    /\ \E i, j \in 1 .. Len(out) : out[i].phase = "delayed" /\ out[j].phase = "clock"

\* ------------------------------------------------- track-level notes off
\* the track-level all-notes-off observed in o sent a Note Off for note n on
\* its track's output channel and destination
OffSentFor(o, n) ==
    \E i \in 1 .. Len(o.sent) :
        /\ o.sent[i].b0 = withChannel(kMidiNoteOff, o.channel[o.track])
        /\ o.sent[i].b1 = n
        /\ o.sent[i].where = o.where[o.track]

\* another track with the same output channel and destination held note n
SharedWithOther(o, n) ==
    \E u \in Tracks \ {o.track} :
        /\ o.channel[u] = o.channel[o.track]
        /\ o.where[u] = o.where[o.track]
        /\ n \in o.activeBefore[u]

\* C3: a track-level all-notes-off for track T sends a Note Off on T's output
\* channel and destination for a note active on T iff no other track with the
\* same output channel and destination has the note active, and it leaves no
\* playing slot of T active.
C3_NoteOffUnlessShared ==
    \A k \in 1 .. Len(obs.offs) :
        LET o == obs.offs[k]
        IN /\ o.activeAfter = {}
           /\ \A n \in o.activeBefore[o.track] : OffSentFor(o, n) <=> ~SharedWithOther(o, n)

\* --------------------------------------------------------- stored events
\* C4: every stored event has note and velocity in 0..127, duration >= 1 and
\* start_step + duration <= length + 1 for its track's length.
C4_StoredEventsValid ==
    \A t \in Tracks : \A s \in StepIdx : \A e \in 1 .. Len(trackStates[t].data[s]) :
        LET ev == trackStates[t].data[s][e]
        IN /\ ev.note \in 0 .. 127
           /\ ev.velocity \in 0 .. 127
           /\ ev.duration >= 1
           /\ (s + 1) + ev.duration <= clampParam(v.track[t].length, 1, MaxSteps) + 1

\* ------------------------------------------------------ forward sequencer
\* the i-th message of On n0, Off n0, On n1, Off n1, ... over the four notes of
\* the track, on the track's output channel and destination
ForwardMessage(i) ==
    LET note == ((i - 1) \div 2) % 4
        on == i % 2 = 1
        channel == clampParam(v.track[0].channel, 1, 16)
    IN [where |-> destToWhere(v.track[0].destination),
        b0 |-> withChannel(IF on THEN kMidiNoteOn ELSE kMidiNoteOff, channel),
        b1 |-> note,
        b2 |-> IF on THEN 100 ELSE 0]

\* the output so far is exactly the first n messages of the sequence
ForwardOutputIs(n) ==
    /\ Len(out) = n
    /\ \A i \in 1 .. n :
          /\ out[i].where = ForwardMessage(i).where
          /\ out[i].b0 = ForwardMessage(i).b0
          /\ out[i].b1 = ForwardMessage(i).b1
          /\ out[i].b2 = ForwardMessage(i).b2

\* C9 (amended): in the forward sequencer scenario a Start edge followed by k >= 1
\* clock edges has produced exactly the first 2k - 1 messages of On C4, Off C4,
\* On D4, Off D4, On E4, Off E4, On F4, Off F4, On C4, ...: each Note Off is
\* sent by the clock edge after its Note On, so 8 clock edges give 15 messages
\* and the Off F4 that would be the 16th comes with the 9th edge.
C9_ForwardOutput ==
    LET k == trackStates[0].clockCount
    IN IF k = 0 THEN out = <<>> ELSE ForwardOutputIs(2 * k - 1)

\* C9 as stated: after the Start edge and 8 clock edges the output is exactly
\* the 16-message sequence
C9_SixteenAfterEight ==
    trackStates[0].clockCount = 8 => ForwardOutputIs(16)

\* eight clock edges have been processed and fifteen messages sent
C9_EightEdges ==
    /\ dtc.transportState = TRANSPORT_RUNNING
    /\ trackStates[0].clockCount = 8
    /\ Len(out) = 15

\* --------------------------------------------------------- live recording
\* the events of note n on a step
EventsOf(evs, n) == SelectSeq(evs, LAMBDA e : e.note = n)

\* the duration stored for a note that started at effective step startStep and
\* ends at endStep: the distance wrapped into the loop, at least 1, rounded to
\* the nearest multiple of the quantize (at least one unit), clamped so that the
\* note ends with the loop
StoredDuration(startStep, endStep, quantizedStep, quantize, loopLen) ==
    LET d == endStep - startStep
        wrapped == IF d < 0 THEN d + loopLen ELSE IF d = 0 THEN 1 ELSE d
        rounded == IF quantize <= 1 THEN wrapped
                   ELSE Max(quantize, ((2 * wrapped + quantize) \div (2 * quantize)) * quantize)
    IN Min(rounded, loopLen - quantizedStep + 1)

\* the recorder left LIVE in transition e with held note n active
ExitWithHeld(e, n) == e.from = REC_LIVE /\ e.heldBefore[n].active

\* the playback step of track t when transition e was made, as a 1-based step
\* of a loop of loopLen steps (0, nothing played yet, counts as step 1)
EndStepAt(e, t, loopLen) == Min(Max(e.stepBefore[t], 1), loopLen)

\* transition e committed held note n: its step holds the note with the
\* duration up to the playback step, unless the step held the note already (then
\* that event is kept) or is full
HeldCommitted(e, n) ==
    LET h == e.heldBefore[n]
        before == e.dataBefore[h.track][h.quantizedStep - 1]
        after == e.dataAfter[h.track][h.quantizedStep - 1]
        duration == StoredDuration(h.effectiveStep, EndStepAt(e, h.track, h.loopLen),
                                   h.quantizedStep, h.quantize, h.loopLen)
    IN IF hasNoteEvent(before, n) THEN EventsOf(after, n) = EventsOf(before, n)
       ELSE \/ EventsOf(after, n) = <<Ev(n, h.velocity, duration)>>
            \/ Len(after) = MAX_EVENTS_PER_STEP /\ EventsOf(after, n) = <<>>

AtThreshold(c) == c.stepFraction[1] * 100 >= c.snapThreshold * c.stepFraction[2]

\* the effective step of context c in a loop of loopLen steps: the next raw
\* step once the fraction has reached the threshold, wrapping to 1
EffectiveStep(c, loopLen) ==
    IF ~AtThreshold(c) THEN c.rawStep
    ELSE IF c.rawStep = loopLen THEN 1 ELSE c.rawStep + 1

\* the division-snapped step of context c: the start of the division the
\* position (raw step plus fraction) lies in, or of the next division (wrapping
\* to 1) once the position within the division has reached the threshold
DivisionStep(c) ==
    LET inDivision == (c.rawStep - 1) % c.quantize
        start == c.rawStep - inDivision
        forward == (inDivision * c.stepFraction[2] + c.stepFraction[1]) * 100
                       >= c.snapThreshold * c.quantize * c.stepFraction[2]
    IN IF ~forward THEN start
       ELSE IF start + c.quantize > c.loopLen THEN 1 ELSE start + c.quantize

\* a distance rounded to the nearest multiple of the quantize, at least one unit
RoundedToQuantize(d, quantize) ==
    Max(quantize, ((2 * d + quantize) \div (2 * quantize)) * quantize)

\* the distance from start to end wrapped into 1..length
WrappedDistance(startStep, endStep, loopLen) == ((endStep - startStep - 1) % loopLen) + 1

\* the distance from start to end, plus the length if negative, 1 if zero
NoteDistance(startStep, endStep, loopLen) ==
    IF endStep < startStep THEN endStep - startStep + loopLen
    ELSE IF endStep = startStep THEN 1 ELSE endStep - startStep

\* the context of the note-on and of the note-off of the example: length 16,
\* division 4, snap 75%; step 2 fraction 0.1, step 3 fraction 0.0
ExampleNoteOn == [track |-> 0, loopLen |-> 16, quantize |-> 4, snapThreshold |-> 75,
                  rawStep |-> 2, stepFraction |-> <<1, 10>>]
ExampleNoteOff == [ExampleNoteOn EXCEPT !.rawStep = 3, !.stepFraction = <<0, 10>>]

\* a note-on was captured in this step: the held note has the division-snapped
\* start step and the effective step of its context
CaptureStep ==
    obs'.handler = "recordNoteOn" =>
        /\ heldNotes'[NoteKey].active
        /\ heldNotes'[NoteKey].quantizedStep = DivisionStep(obs'.ctx)
        /\ heldNotes'[NoteKey].effectiveStep = EffectiveStep(obs'.ctx, obs'.ctx.loopLen)
        /\ obs'.ctx = ExampleNoteOn =>
              heldNotes'[NoteKey].quantizedStep = 1 /\ heldNotes'[NoteKey].effectiveStep = 2

\* the held note was released in this step: the track holds exactly one event,
\* at the start step of the held note, with the duration given by Distance
ReleaseStep(Distance(_, _, _)) ==
    obs'.handler = "recordNoteOff" /\ heldNotes[NoteKey].active =>
        LET h == heldNotes[NoteKey]
            endStep == EffectiveStep(obs'.ctx, h.loopLen)
            duration == Min(RoundedToQuantize(Distance(h.effectiveStep, endStep, h.loopLen),
                                              h.quantize),
                            h.loopLen - h.quantizedStep + 1)
        IN /\ ~heldNotes'[NoteKey].active
           /\ trackStates'[h.track].data =
                  [EmptySteps EXCEPT ![h.quantizedStep - 1] = <<Ev(NoteKey, h.velocity, duration)>>]
           /\ h.rawStep = ExampleNoteOn.rawStep /\ h.quantize = ExampleNoteOn.quantize
                 /\ h.effectiveStep = 2 /\ obs'.ctx = ExampleNoteOff
                 => trackStates'[h.track].data[0] = <<Ev(NoteKey, h.velocity, 4)>>

\* C12 (amended): in live recording a note-on followed by its note-off stores
\* exactly one event on the record track, at the division-snapped start step,
\* with duration = effective end step - effective start step, plus the length
\* if that is negative and 1 if it is zero, rounded to the nearest multiple of
\* the effective quantize (at least one unit), clamped to length -
\* quantized_start + 1.  Length 16, division 4, snap 75%: note-on at step 2
\* fraction 0.1 gives quantized_step 1 and effective_step 2, note-off at step 3
\* fraction 0.0 stores duration 4 at step 1.
C12_NoteStored == [][CaptureStep /\ ReleaseStep(NoteDistance)]_vars

\* C12 as stated: the distance is wrapped into 1..length
C12_NoteStoredWrapped == [][CaptureStep /\ ReleaseStep(WrappedDistance)]_vars

\* a note of the length-16 grid was released at the effective step it started
\* at and stored with a duration of one division
C12_ReleasedInStartStep ==
    LET h == heldNotes[NoteKey]
    IN /\ obs.handler = "recordNoteOff"
       /\ ~h.active
       /\ h.loopLen = 16
       /\ EffectiveStep(obs.ctx, h.loopLen) = h.effectiveStep
       /\ trackStates[0].data[h.quantizedStep - 1] = <<Ev(NoteKey, NoteVelocity, h.quantize)>>

\* ------------------------------------------------------------ panic on wrap
\* message m is a Note Off (status 0x80, or a Note On with velocity 0) for note n
SilencesNote(m, n) ==
    /\ m.b1 = n
    /\ \/ (m.b0 \div 16) * 16 = kMidiNoteOff
       \/ (m.b0 \div 16) * 16 = kMidiNoteOn /\ m.b2 = 0

\* C13: with PanicOnWrap, on the tick at which a track's loop wraps, every note
\* playing on every track is silenced with a Note Off, and the playing pools of
\* all tracks and the delayed pool are cleared
C13_PanicSilencesEveryNote ==
    \A i \in 1 .. Len(obs.panics) :
        LET p == obs.panics[i]
        IN /\ \A t \in Tracks : \A n \in p.activeBefore[t] :
                  \E j \in 1 .. Len(p.sent) : SilencesNote(p.sent[j], n)
           /\ \A t \in Tracks : p.activeAfter[t] = {} /\ p.countedAfter[t] = {}
           /\ p.delayedAfter = {}

\* ------------------------------------------------------- playback positions
\* C14: at the end of every audio block, for every track, 0 <= step <= length,
\* 1 <= brownian_pos <= length and 1 <= shuffle_pos <= length + 1 for the
\* track's current Length parameter
C14_PositionsWithinLength ==
    obs.handler = "step" =>
        \A t \in Tracks :
            LET ts == trackStates[t]
                length == v.track[t].length
            IN /\ 0 <= ts.step /\ ts.step <= length
               /\ 1 <= ts.brownianPos /\ ts.brownianPos <= length
               /\ 1 <= ts.shufflePos /\ ts.shufflePos <= length + 1

\* C15: at the end of every audio block, for every track, the first length
\* entries of shuffle_order are a permutation of 1..length for the track's
\* current Length parameter
C15_ShuffleOrderPermutation ==
    obs.handler = "step" =>
        \A t \in Tracks :
            LET length == v.track[t].length
            IN {trackStates[t].shuffleOrder[s] : s \in 0 .. length - 1} = 1 .. length

\* ------------------------------------------------------------- step events
\* C16: after any sequence of live recording, step recording and Generate
\* operations no step holds two events with the same note number and no step
\* holds more than MAX_EVENTS_PER_STEP events
C16_NoDuplicateNotes ==
    \A t \in Tracks : \A s \in StepIdx :
        LET evs == trackStates[t].data[s]
        IN /\ Len(evs) <= MAX_EVENTS_PER_STEP
           /\ \A i, j \in 1 .. Len(evs) : evs[i].note = evs[j].note => i = j

\* ------------------------------------------------------- base step sequences
\* C17: for every direction mode other than Brownian, Random and Shuffle, every
\* length and every stride size, the base steps of clock_count = 1..length are
\* a permutation of 1..length; every mode returns a step within 1..length
StatelessDirection(dir) == dir \notin {9, 10, 11}
C17_BaseStepsPermutation ==
    obs.handler = "getStepForClock" =>
        LET length == v.track[0].length
            played == obs.baseSteps
        IN /\ \A i \in 1 .. Len(played) : 1 <= played[i] /\ played[i] <= length
           /\ StatelessDirection(v.track[0].direction) /\ Len(played) >= length
                  => {played[i] : i \in 1 .. length} = 1 .. length

\* ---------------------------------------------------- Ping-Pong and No-Repeat
\* C18: with length 3, Ping-Pong and No-Repeat the final steps played after a
\* transport start are 1,2,3,2,1,2,3,2,...: No-Repeat never alters a step
PongClaimed == <<1, 2, 3, 2, 1, 2, 3, 2>>
C18_PingPongNoRepeat ==
    LET ts == trackStates[0]
    IN dtc.transportState = TRANSPORT_RUNNING /\ ts.clockCount \in 1 .. Len(PongClaimed)
           => ts.step = PongClaimed[ts.clockCount]

\* ---------------------------------------------------------------- Generate New
\* the steps of a loop of length loopLen that lie on the division grid
DivisionAligned(loopLen, quantize) == {s \in 1 .. loopLen : (s - 1) % quantize = 0}
\* the distance from step s forward, with wrap, to the next step that holds an event
DistanceToNextOccupied(data, s, loopLen) ==
    LET ahead == {d \in 1 .. loopLen : Len(data[(s - 1 + d) % loopLen]) > 0}
    IN CHOOSE d \in ahead : \A other \in ahead : d <= other
\* the track holds exactly the dense New pattern of its grid
DensePattern(t) ==
    LET loopLen == clampParam(v.track[t].length, 1, MaxSteps)
        quantize == findValidQuantize(loopLen, QUANTIZE_VALUES[clampParam(v.recDivision, 0, 4) + 1])
        data == trackStates[t].data
    IN \A s \in 1 .. MaxSteps :
           IF s \in DivisionAligned(loopLen, quantize)
           THEN /\ Len(data[s - 1]) = 1
                /\ data[s - 1][1].note = v.genBias
                /\ data[s - 1][1].duration = DistanceToNextOccupied(data, s, loopLen)
           ELSE data[s - 1] = <<>>
GeneratedOn(t) ==
    /\ obs.handler = "step"
    /\ \E i \in 1 .. Len(obs.offs) : obs.offs[i].cause = "generate" /\ obs.offs[i].track = t

\* C19: Generate in New mode with density 100, note randomness 0, scale off,
\* gate randomness 0 and ties 100 leaves exactly one event on every
\* division-aligned step of the record track and none elsewhere, each with
\* note = bias and duration = the distance to the next occupied step
C19_GenerateNewDense ==
    \A t \in Tracks : GeneratedOn(t) => DensePattern(t)

\* witness: Generate ran on a track of length 4 with a division of 2 steps and
\* left notes of two steps on steps 1 and 3 only
C19_DenseOnDivision ==
    \E t \in Tracks :
        /\ GeneratedOn(t)
        /\ v.track[t].length = 4 /\ v.recDivision = 1
        /\ Len(trackStates[t].data[0]) = 1 /\ trackStates[t].data[0][1].duration = 2
        /\ trackStates[t].data[1] = <<>>
        /\ Len(trackStates[t].data[2]) = 1 /\ trackStates[t].data[2][1].duration = 2
        /\ trackStates[t].data[3] = <<>>

\* ---------------------------------------------------------- record track change
\* the block about to run sees a Rec Track other than the previous block's
RecTrackChanges == clampParam(v.recTrack, 0, NumTracks - 1) # dtc.lastTrack
NoHeldNote == \A n \in Notes : ~heldNotes[n].active
HasNote(evs, n) == \E e \in 1 .. Len(evs) : evs[e].note = n
\* the step made an event of the note that was held before it
CommitsHeld(n) ==
    LET held == heldNotes[n]
        track == safeTrackIndex(held.track)
        stepIdx == safeStepIndex(held.quantizedStep - 1)
    IN /\ held.active
       /\ HasNote(trackStates[track].data[stepIdx], n)'
       /\ ~HasNote(trackStates[track].data[stepIdx], n)
TrackChangeBlock == obs'.handler = "step" /\ RecTrackChanges
CursorReset == dtc.recordState = REC_STEP => dtc.stepRecPos = 1

\* C20 as stated: after any audio block in which the clamped Rec Track differs
\* from the value seen by the previous block, no held note is active, none was
\* committed as an event, and a recorder in STEP has its cursor on 1
C20_TrackChangeDropsHeld ==
    [][TrackChangeBlock =>
          /\ NoHeldNote'
          /\ \A n \in Notes : ~CommitsHeld(n)
          /\ CursorReset']_vars

\* C20 amended: after such a block no held note is active and a recorder in STEP
\* has its cursor on 1; a held note is committed in the block only by a
\* transport stop, which runs before the recorder section
C20_TrackChangeClearsHeld ==
    [][TrackChangeBlock =>
          /\ NoHeldNote'
          /\ \A n \in Notes : CommitsHeld(n) => obs'.stops = 1
          /\ CursorReset']_vars

\* witness: a block saw the Rec Track change while a key was held and the
\* transport kept running: the held note is gone and no event was stored
C20_HeldNoteDropped ==
    /\ obs.handler = "step" /\ obs.trackChanged /\ obs.heldCleared = {NoteKey}
    /\ obs.stops = 0
    /\ NoHeldNote
    /\ StoredEvents = 0

\* ------------------------------------------------------- latched parameters
\* the executions of a latched action (Clear Track, Clear All, Generate) in the
\* block that led to this state: one observation per track it acted on
Executions(cause) == {i \in 1 .. Len(obs.offs) : obs.offs[i].cause = cause}
\* the action ran after the transport edge of its block, before the recorder
\* section and before the clock tick
RanInOrder(i) ==
    LET e == obs.offs[i]
    IN /\ e.phase \in {"clear", "generate"}
       /\ e.starts = obs.starts /\ e.stops = obs.stops
       /\ e.ticks = 0
       /\ \A k \in 1 .. Len(obs.log) :
              IF k <= e.logLen THEN obs.log[k].cause \in {"start", "stop"}
              ELSE obs.log[k].cause \in {"recorder", "pending"}
LatchedCauses == {"clearTrack", "clearAll", "generate"}

\* C21: Clear Track, Clear All and Generate each execute exactly once per 0->1
\* change of their parameter as seen at block boundaries (not again while the
\* parameter stays 1, not on a 1->0 change), after the transport edge and
\* before the recorder section and the clock tick of the block
C21_LatchedActionsOnce ==
    [][obs'.handler = "step" =>
          /\ Cardinality(Executions("clearTrack"))' =
                 (IF v.clearTrack = 1 /\ dtc.lastClearTrack = 0 THEN 1 ELSE 0)
          /\ Cardinality(Executions("clearAll"))' =
                 (IF v.clearAll = 1 /\ dtc.lastClearAll = 0 THEN NumTracks ELSE 0)
          /\ Cardinality(Executions("generate"))' =
                 (IF v.generate = 1 /\ dtc.lastGenerate = 0 THEN 1 ELSE 0)
          /\ \A t \in Tracks :
                 Cardinality({i \in Executions("clearAll") : obs.offs[i].track = t})' <= 1
          /\ \A cause \in LatchedCauses : \A i \in Executions(cause)' : RanInOrder(i)']_vars

\* witness: in one block the transport started, Clear Track ran, the recorder
\* changed state and the clock ticked
C21_ClearBetweenStartAndTick ==
    /\ obs.handler = "step"
    /\ Executions("clearTrack") # {}
    /\ obs.starts = 1 /\ obs.ticks = 1
    /\ \E k \in 1 .. Len(obs.log) : obs.log[k].cause = "recorder"

\* ------------------------------------------------------------- one-step loop
\* the block processed a clock tick
Ticked == obs.handler = "step" /\ obs.ticks = 1
\* the tick of this block detected a loop wrap on track t (Panic On Wrap is on)
WrapDetected(t) == \E i \in 1 .. Len(obs.panics) : obs.panics[i].track = t

\* C22 as stated: with length 1 every direction mode yields step 1 on every
\* processed tick and a wrap is detected on every processed tick
C22_OneStepWrapsEveryTick ==
    Ticked /\ v.track[0].length = 1 =>
        trackStates[0].step = 1 /\ WrapDetected(0)

\* C22 amended: with length 1 every direction mode yields step 1 on every
\* processed tick; a wrap is detected on every processed tick but the first
\* one after a transport start
C22_OneStepWrapsAfterFirstTick ==
    Ticked /\ v.track[0].length = 1 =>
        /\ trackStates[0].step = 1
        /\ WrapDetected(0) <=> trackStates[0].clockCount > 1
        /\ trackStates[0].loopCount <= trackStates[0].clockCount - 1

\* witness: the third tick of a one-step loop detected a wrap
C22_OneStepThirdTick ==
    /\ Ticked /\ v.track[0].length = 1
    /\ trackStates[0].clockCount = 3 /\ trackStates[0].loopCount = 2
    /\ WrapDetected(0)

\* ------------------------------------------------------- full snap threshold
\* the last handler was a note-on that live recording captured
CapturedNoteOn ==
    /\ obs.handler = "midiMessage" /\ obs.ctx # NoContext
    /\ heldNotes[NoteKey].active

\* C23: with Rec Snap = 100% the effective step captured for a live note-on
\* equals the current playback step, for every step fraction the recording
\* context can produce
C23_FullSnapNeverAdvances ==
    CapturedNoteOn /\ v.recSnap = 100 =>
        heldNotes[NoteKey].effectiveStep = obs.ctx.rawStep

\* ------------------------------------------------------------ scale quantizer
\* C24: the scale quantizer is idempotent: for every note, root and scale,
\* quantize(quantize(n)) = quantize(n)
C24_QuantizeIdempotent ==
    obs.handler = "quantizeToScale" /\ Len(obs.quantized) = 2 =>
        obs.quantized[2] = obs.quantized[1]

\* ----------------------------------------------------------- delayed-note pool
\* the delayed slots in use
ActiveDelayed == {di \in DelaySlots : delayedNotes[di].active}
\* the notes waiting in the pool, the notes of the Note Ons of this block
DelayedPitches == {delayedNotes[di].note : di \in ActiveDelayed}
SentPitches == {out[i].b1 : i \in {j \in 1 .. Len(out) : NoteOnOf(out[j])}}
DroppedPitches == {obs.drops[i].note : i \in 1 .. Len(obs.drops)}
\* the notes stored on the step track t played
PlayedPitches(t) ==
    LET s == trackStates[t].step - 1
    IN IF s \in StepIdx
       THEN {trackStates[t].data[s][e].note : e \in 1 .. Len(trackStates[t].data[s])}
       ELSE {}

\* C25: a humanized note scheduled while every delayed slot is active is
\* dropped: the pool stays as it was, no Note On is sent for the note, nothing
\* in the pool will send one later, no playing slot is primed for it, and the
\* other events of the tick are still emitted or scheduled; the pool never
\* holds more than MAX_DELAYED_NOTES notes
C25_PoolOverflowDrops ==
    /\ Cardinality(ActiveDelayed) <= MaxDelayedNotes
    /\ Ticked =>
          /\ \A i \in 1 .. Len(obs.drops) :
                LET d == obs.drops[i]
                IN /\ \A di \in DelaySlots : d.pool[di].active
                   /\ delayedNotes = d.pool
                   /\ d.note \notin SentPitches
                   /\ d.note \notin DelayedPitches
                   /\ ~trackStates[d.track].playing[d.note].active
          /\ PlayedPitches(0) = SentPitches \cup DelayedPitches \cup DroppedPitches
          /\ Cardinality(SentPitches) + Cardinality(DelayedPitches)
               + Len(obs.drops) = Cardinality(PlayedPitches(0))
\* a tick that dropped the third event of the step and sent the fourth
C25_DroppedThenSent ==
    /\ Ticked /\ Len(obs.drops) = 1
    /\ obs.drops[1].note = 2
    /\ \E i \in 1 .. Len(out) :
          NoteOnOf(out[i]) /\ out[i].b1 = 3 /\ i > obs.drops[1].outLen

\* -------------------------------------------------------------- trig conditions
\* a condition of track t fails on the loop count the tick left
CondFails(t, cond) ==
    ~evaluateTrigCondition(cond, trackStates[t].loopCount, v.fill = 1)
\* the step condition A (B) of track t targets the step the tick played
TargetsA(t) == v.track[t].condStepA > 0 /\ trackStates[t].step = v.track[t].condStepA
TargetsB(t) == v.track[t].condStepB > 0 /\ trackStates[t].step = v.track[t].condStepB
\* the tick of this block sent a Note On
TickSentNoteOn == \E i \in 1 .. Len(out) : NoteOnOf(out[i]) /\ out[i].phase = "clock"

\* C26: on a processed tick of an enabled track, when the track condition or a
\* step condition (A or B) that targets the final step is false, no event of the
\* step is emitted, also when A and B target the same step
C26_FalseConditionMutes ==
    (/\ Ticked /\ v.track[0].enabled = 1
     /\ \/ CondFails(0, v.track[0].stepCond)
        \/ TargetsA(0) /\ CondFails(0, v.track[0].condA)
        \/ TargetsB(0) /\ CondFails(0, v.track[0].condB))
    => ~TickSentNoteOn

\* ----------------------------------------------------------- step-record cursor
\* the division steps of the current record track: length / effective quantize
DivisionSteps ==
    LET track == clampParam(v.recTrack, 0, NumTracks - 1)
        loopLen == clampParam(v.track[track].length, 1, MaxSteps)
    IN loopLen \div
         findValidQuantize(loopLen, QUANTIZE_VALUES[clampParam(v.recDivision, 0, 4) + 1])

\* C27: between any two handler calls (where a MIDI message can arrive) the
\* cursor is within 1 .. length / effective quantize of the current record
\* track while the recorder is in STEP, and 0 otherwise
C27_CursorInRange ==
    IF dtc.recordState = REC_STEP
    THEN dtc.stepRecPos >= 1 /\ dtc.stepRecPos <= DivisionSteps
    ELSE dtc.stepRecPos = 0

\* --------------------------------------------------------------- step recording
\* the record track and its effective quantize
StepTrack == clampParam(v.recTrack, 0, NumTracks - 1)
StepQuantize ==
    findValidQuantize(clampParam(v.track[StepTrack].length, 1, MaxSteps),
                      QUANTIZE_VALUES[clampParam(v.recDivision, 0, 4) + 1])
\* the cursor one division further, wrapping to 1 after the last division
NextDivision(pos) ==
    IF pos + 1 > clampParam(v.track[StepTrack].length, 1, MaxSteps) \div StepQuantize
    THEN 1 ELSE pos + 1
\* a MIDI message is handled while the recorder is in STEP
StepMessage == obs'.handler = "midiMessage" /\ dtc.recordState = REC_STEP
\* after the message the step under the cursor holds the note the key maps to,
\* one quantize unit long, and no other step changed
StoredUnderCursor ==
    LET idx == (dtc.stepRecPos - 1) * StepQuantize
        evs == trackStates'[StepTrack].data[idx]
    IN /\ \E e \in 1 .. Len(evs) : /\ evs[e].note = dtc'.noteMap[obs'.midi.key]
                                   /\ evs[e].duration = StepQuantize
       /\ \A t \in Tracks, s \in StepIdx :
             (t # StepTrack \/ s # idx) =>
                 trackStates'[t].data[s] = trackStates[t].data[s]

\* C28: in STEP a note-on stores its event on raw step (stepRecPos - 1) *
\* quantize + 1, one quantize unit long, and leaves the cursor; a note-off moves
\* the cursor one division forward (wrapping to 1) exactly when no key is held
\* after it, so a chord moves the cursor once, on its last release
C28_StepRecordChord ==
    [][StepMessage =>
         /\ obs'.midi.on => StoredUnderCursor /\ dtc'.stepRecPos = dtc.stepRecPos
         /\ obs'.midi.off =>
               /\ dtc'.stepRecPos = IF obs'.keysDown = {} THEN NextDivision(dtc.stepRecPos)
                                     ELSE dtc.stepRecPos
               /\ TrackDataOf([trackStates |-> trackStates'])
                    = TrackDataOf([trackStates |-> trackStates])]_vars

\* ------------------------------------------------------------ Generate: Reorder
\* the steps of a track that hold an event, the places (step, index) of its events
OccupiedSteps(data) == {s \in StepIdx : Len(data[s]) > 0}
EventPlaces(data) == {x \in StepIdx \X (1 .. MAX_EVENTS_PER_STEP) : x[2] <= Len(data[x[1]])}
\* how often the event ev (note, velocity, duration) is stored on the track
Occurrences(data, ev) == Cardinality({x \in EventPlaces(data) : data[x[1]][x[2]] = ev})
\* this block runs Generate in Reorder mode
ReorderBlock ==
    /\ obs'.handler = "step"
    /\ v.generate = 1 /\ dtc.lastGenerate # 1 /\ v.genMode = GEN_MODE_REORDER

\* C29: Generate in Reorder mode leaves the set of occupied steps and the
\* multiset of stored events (note, velocity, duration) of the track unchanged,
\* for every track content, steps holding chords included
C29_ReorderPermutes ==
    [][ReorderBlock =>
          LET track == clampParam(v.recTrack, 0, NumTracks - 1)
              before == trackStates[track].data
              after == trackStates'[track].data
          IN /\ OccupiedSteps(after) = OccupiedSteps(before)
             /\ \A x \in EventPlaces(before) :
                   Occurrences(after, before[x[1]][x[2]])
                     = Occurrences(before, before[x[1]][x[2]])
             /\ \A x \in EventPlaces(after) :
                   Occurrences(before, after[x[1]][x[2]])
                     = Occurrences(after, after[x[1]][x[2]])]_vars

\* -------------------------------------------------------------------- loop wraps
\* the ticks of one full cycle of the step sequence of a direction
CycleLength(dir, loopLen) ==
    IF dir = 2 THEN 2 * (loopLen - 1)
    ELSE IF dir = 3 \/ dir = 6 THEN 2 * loopLen
    ELSE loopLen

\* C30: for a stateless direction without modifiers and a length above 1 a wrap
\* is detected on one tick per full cycle of the step sequence, the tick that
\* follows a completed cycle, so the loop count is the number of completed
\* cycles and stays 0 during the first cycle after a start
C30_OneWrapPerCycle ==
    Ticked =>
        LET clockCount == trackStates[0].clockCount
            cycle == CycleLength(v.track[0].direction, v.track[0].length)
        IN /\ WrapDetected(0) <=> (clockCount > 1 /\ (clockCount - 1) % cycle = 0)
           /\ trackStates[0].loopCount = (clockCount - 1) \div cycle

\* ---------------------------------------------------------------- quantize cache
\* the largest q <= min(target, length) that divides the length
LargestDivisor(length, target) ==
    CHOOSE q \in 1 .. Min(target, length) :
        /\ length % q = 0
        /\ \A other \in 1 .. Min(target, length) : length % other = 0 => other <= q
\* what a lookup of track t returns now: the cached pair when the cache is
\* clean, otherwise the pair computed from the parameters
LookupOf(t) ==
    LET cache == trackStates[t].cache
    IN IF cache.dirty
       THEN <<findValidQuantize(clampParam(v.track[t].length, 1, MaxSteps),
                                QUANTIZE_VALUES[clampParam(v.recDivision, 0, 4) + 1]),
              clampParam(v.track[t].length, 1, MaxSteps)>>
       ELSE <<cache.effectiveQuantize, cache.loopLen>>

\* C31: whatever parameter changes, MIDI messages and blocks came before, the
\* cached lookup of every track returns the largest divisor of the current
\* Length not above the division target, and the current Length
C31_CacheIsCurrent ==
    \A t \in Tracks :
        /\ LookupOf(t)[1] = LargestDivisor(v.track[t].length,
                                           QUANTIZE_VALUES[v.recDivision + 1])
        /\ LookupOf(t)[2] = v.track[t].length
        /\ v.track[t].length % LookupOf(t)[1] = 0
\* a lookup made after Length was lowered to 3 with a division of 2 steps
C31_RefreshedAfterChange ==
    /\ obs.handler = "midiMessage"
    /\ v.track[0].length = 3 /\ v.recDivision = 1
    /\ trackStates[0].cache = [effectiveQuantize |-> 1, loopLen |-> 3, dirty |-> FALSE]

\* --------------------------------------------------------- recorder and transport
\* C32: at the end of every audio block a LIVE recorder has a running transport
\* and a LIVE_PENDING recorder a stopped one
C32_LiveFollowsTransport ==
    obs.handler = "step" =>
        /\ dtc.recordState = REC_LIVE => dtc.transportState = TRANSPORT_RUNNING
        /\ dtc.recordState = REC_LIVE_PENDING => dtc.transportState = TRANSPORT_STOPPED
\* a block that stopped the transport under a LIVE recorder, with Record on
C32_StoppedWhileLive ==
    /\ obs.handler = "step" /\ obs.stops = 1 /\ obs.recBefore = REC_LIVE
    /\ v.record = 1 /\ dtc.transportState = TRANSPORT_STOPPED
    /\ dtc.recordState = REC_IDLE

\* ---------------------------------------------------------------- input thresholds
\* C35: at the end of a block whose Run CV was sampled below the low threshold
\* the transport is stopped, whatever values the CV took in the blocks before
C35_LowGateStops ==
    (obs.handler = "step" /\ obs.cv.gate < GATE_THRESHOLD_LOW) =>
        dtc.transportState = TRANSPORT_STOPPED

\* C36: a clock rising edge is detected only when the Clock CV was sampled
\* below the low threshold since the previous detected edge, and a transport
\* start only when the Run CV was sampled below it since the previous start
C36_EdgeNeedsLow ==
    [][obs'.handler = "step" =>
         /\ obs'.clockRising => obs.lowSeen.clock
         /\ obs'.starts = 1 => obs.lowSeen.gate]_vars

\* ------------------------------------------------------------------ note durations
\* the step that holds note n (0 on step 1, 1 on step 3) and its stored duration
StepOfNote(n) == 1 + 2 * n
DurationOfNote(n) == trackStates[0].data[StepOfNote(n) - 1][1].duration
\* the ticks since note n was last emitted, on tick clockCount of a Forward track
TicksSinceNote(n, clockCount) == (clockCount - StepOfNote(n)) % DurLength
\* this block sent a Note On (Note Off) for note n
OnSent(n) == \E i \in 1 .. Len(out) : NoteOnOf(out[i]) /\ out[i].b1 = n
OffSent(n) == \E i \in 1 .. Len(out) : NoteOffOf(out[i]) /\ out[i].b1 = n

\* C33: a note emitted on tick k with stored duration d gets its Note Off on
\* tick k + d of its track and plays on the ticks in between, and on every tick
\* the Note Offs of the expiring notes precede the Note Ons of the new step
C33_OffAfterDuration ==
    Ticked =>
        /\ \A n \in 0 .. 1 :
              trackStates[0].clockCount >= StepOfNote(n) =>
                  LET since == TicksSinceNote(n, trackStates[0].clockCount)
                  IN /\ OnSent(n) <=> since = 0
                     /\ OffSent(n) <=> since = DurationOfNote(n)
                     /\ trackStates[0].playing[n].active <=> since < DurationOfNote(n)
        /\ \A i, j \in 1 .. Len(out) :
              NoteOffOf(out[i]) /\ NoteOnOf(out[j]) => i < j
\* the third tick ends the two-step note of step 1 and then starts the note of
\* step 3
C33_OffThenOn ==
    /\ Ticked /\ trackStates[0].clockCount = 3 /\ DurationOfNote(0) = 2
    /\ Len(out) = 2
    /\ NoteOffOf(out[1]) /\ out[1].b1 = 0
    /\ NoteOnOf(out[2]) /\ out[2].b1 = 1

\* ---------------------------------------------------------------------- No-Repeat
\* this block processes a tick of track t that has a previous tick since the start
LaterTick(t) ==
    /\ obs'.handler = "step" /\ obs'.ticks = 1 /\ obs'.starts = 0
    /\ trackStates[t].clockCount >= 1

\* C34: with No-Repeat and a length above 1 the final step of a processed tick
\* differs from the final step of the track's previous processed tick, for
\* every direction and step mask
C34_NoRepeatNeverRepeats ==
    [][(LaterTick(0) /\ v.track[0].noRepeat = 1 /\ v.track[0].length > 1) =>
           trackStates'[0].step # trackStates[0].step]_vars

\* ------------------------------------------------------- played step and Length
\* C37: a tick that emits events of track 0 plays a step within 1..length of
\* the track's current Length parameter, also after Length was reduced while
\* the transport runs
C37_PlayedStepWithinLength ==
    (Ticked /\ TickSentNoteOn) =>
        (1 <= trackStates[0].step /\ trackStates[0].step <= v.track[0].length)

\* ------------------------------------------------------------------ stuck notes
\* the i-th message of the output is a Note On
OnAt(i) == i <= Len(out) /\ NoteOnOf(out[i])

\* a later message silences the i-th: a Note Off for its note, or CC 123, on its
\* channel and destination
SilencedAfter(i) ==
    \E j \in i + 1 .. Len(out) :
        /\ out[j].where = out[i].where
        /\ out[j].b0 % 16 = out[i].b0 % 16
        /\ \/ NoteOffOf(out[j]) /\ out[j].b1 = out[i].b1
           \/ out[j].b0 - (out[j].b0 % 16) = kMidiCC /\ out[j].b1 = 123

\* the engine still holds the note of the i-th message in a playing slot or in
\* the delayed-note pool
HeldFor(i) ==
    \/ \E t \in Tracks : trackStates[t].playing[out[i].b1].active
    \/ \E d \in DelaySlots : delayedNotes[d].active /\ delayedNotes[d].note = out[i].b1

\* every Note On sent so far has been silenced or is still held by the engine
AllAccounted == \A i \in 1 .. Len(out) : OnAt(i) => (SilencedAfter(i) \/ HeldFor(i))

\* C38: at any time while the transport runs and the clock ticks, every Note On
\* sent so far has been followed by a Note Off for its note or by CC 123 on its
\* channel and destination, or the engine still holds the note, so that a later
\* tick sends its Note Off; also when Clear Track or a track disable occurs
\* while the note plays
C38_NoStuckNotes == AllAccounted

\* ------------------------------------------------------- Note On and Note Off
\* in the output of this block the i-th message is a Note On and the later j-th
\* message is the Note Off the clock section sends for the same note of the
\* same track when its duration has run out
ExpiresInOnBlock(i, j) ==
    /\ i < j
    /\ NoteOnOf(out[i]) /\ NoteOffOf(out[j]) /\ out[j].phase = "clock"
    /\ out[i].track = out[j].track /\ out[i].b1 = out[j].b1
    /\ out[i].b0 % 16 = out[j].b0 % 16 /\ out[i].where = out[j].where

\* C39: no audio block sends the Note On of a sequenced note and then the
\* Note Off of its duration expiry, also when a humanized note's delay runs
\* out in a block that processes a clock tick of its track
C39_OffNotInOnBlock ==
    obs.handler = "step" =>
        \A i, j \in 1 .. Len(out) : ~ExpiresInOnBlock(i, j)

\* ------------------------------------------------------------- clock_count wrap
\* the run has not passed the wrap of clock_count: few loops were counted
BeforeWrap(t) == trackStates[t].loopCount <= WideMaxClock

\* the states of the first ticks of a run are those WideAt describes
WideAtMatchesRun ==
    \A k \in 2 .. WideMaxClock :
        (/\ \A t \in Tracks : trackStates[t].clockCount = k /\ BeforeWrap(t)
         /\ ~dtc.prevClockHigh)
        => <<v, dtc, trackStates, heldNotes, delayedNotes, out, obs>> =
           <<v, WideDtc, WideTracks(v, k), construct.heldNotes, construct.delayedNotes,
             <<>>, WideObs(v, k)>>

\* C40: every processed tick leaves every track on a step within 1..length,
\* also the tick at which clock_count wraps modulo 2^16 and the ticks after it
C40_StepAfterWrap ==
    Ticked => \A t \in Tracks :
                 1 <= trackStates[t].step /\ trackStates[t].step <= v.track[t].length

====
